---- MODULE Spec2Model ----
(***************************************************************************)
(* A model of the volumetric processing and segmentation engine of         *)
(* neuroscan-ai: the study difference utilities (utils/imageProcessing.ts), *)
(* the comparison state of App, the brush of Viewport and the pipeline     *)
(* runs of ProcessingPanel.                                                *)
(*                                                                         *)
(* JavaScript numbers are modelled by integers plus NaN and the two        *)
(* infinities; typed-array stores are modelled by the conversion the       *)
(* array applies (Float32Array rounds, Uint8Array wraps).                  *)
(***************************************************************************)
EXTENDS Integers, Sequences, FiniteSets, TLC

VARIABLES
    fnIn, fnOut,                                  \* a call of a pure utility: arguments, result
    studies, diffVolume, diffSeg, comparisonMode, \* App: multi-study comparison state
    volume, segmentationVolume,                   \* App: single-study state
    viewportTool, brushSize, lastDraw, nDraws,    \* App / Viewport: brush interaction
    activeTool, panel, runs, nMounts, nRuns,      \* App / ProcessingPanel: pipeline runs
    lastAlert,                                    \* the message of the last alert() shown
    heap                                          \* typed arrays by identity (SpecFrame)

harnessVars == <<fnIn, fnOut>>
cmpVars     == <<studies, diffVolume, diffSeg, comparisonMode>>
studyVars   == <<volume, segmentationVolume>>
brushVars   == <<viewportTool, brushSize, lastDraw, nDraws>>
pipeVars    == <<activeTool, panel, runs, nMounts, nRuns, lastAlert>>
heapVars    == <<heap>>
vars == <<fnIn, fnOut, studies, diffVolume, diffSeg, comparisonMode,
          volume, segmentationVolume, viewportTool, brushSize, lastDraw, nDraws,
          activeTool, panel, runs, nMounts, nRuns, lastAlert, heap>>

(***************************************************************************)
(* Bounds of the model.                                                    *)
(***************************************************************************)
MaxLen == 2
MaxStudies == 2
MaxBrush == 3
MaxDraws == 2
MaxMounts == 2
MaxRuns == 2
MaxImports == 1
MaxCluster == 2

(***************************************************************************)
(* JavaScript numbers.                                                     *)
(***************************************************************************)
PosInf == 2000000000
NegInf == -2000000000
NaN == 2000000001

IsFinite(v) == v # NaN /\ v # PosInf /\ v # NegInf

\* a < b, a > b, a >= b, a <= b on numbers: every comparison with NaN is false
Lt(a, b) == a # NaN /\ b # NaN /\ a < b
Gt(a, b) == Lt(b, a)
Ge(a, b) == a # NaN /\ b # NaN /\ a >= b
Le(a, b) == Ge(b, a)

\* a - b on the numbers the data can hold (finite or NaN)
Sub(a, b) == IF a = NaN \/ b = NaN THEN NaN ELSE a - b

Abs(n) == IF n < 0 THEN -n ELSE n

Pow2(k) == IF k = 0 THEN 1 ELSE IF k = 1 THEN 2 ELSE IF k = 2 THEN 4 ELSE IF k = 3 THEN 8
           ELSE IF k = 4 THEN 16 ELSE IF k = 5 THEN 32 ELSE IF k = 6 THEN 64 ELSE 128

\* the spacing of 32-bit floats around an integer of magnitude a < 2^31
Ulp32(a) == LET k == CHOOSE j \in 0..7 : a < 16777216 * Pow2(j) /\ (j = 0 \/ a >= 16777216 * Pow2(j - 1))
            IN  Pow2(k)

\* the value a Float32Array element holds after storing v: round to nearest, ties to even
Fround(v) ==
    IF ~IsFinite(v) THEN v
    ELSE LET a == Abs(v)
             u == Ulp32(a)
             q == a \div u
             r == a % u
             up == (2 * r > u) \/ (2 * r = u /\ q % 2 = 1)
             m == (IF up THEN q + 1 ELSE q) * u
         IN  IF v < 0 THEN -m ELSE m

\* x || d
OrElse(x, d) == IF x = 0 \/ x = NaN THEN d ELSE x

\* the value a Uint8Array element holds after storing v
ToUint8(v) == IF ~IsFinite(v) THEN 0 ELSE v % 256

(***************************************************************************)
(* VolumeData (types.ts).  A header is modelled by its datatype tag and    *)
(* its dims entry.                                                         *)
(***************************************************************************)
Null == [kind |-> "null"]

VolumeData(code, hdims, dims, data, min, max) ==
    [kind |-> "volume", datatypeCode |-> code, hdims |-> hdims,
     dimensions |-> dims, data |-> data, min |-> min, max |-> max]

\* the samples a scan  for (i = from; i < len; i += stride)  visits (0-based i)
Visited(data, from, stride, len) ==
    {data[i + 1] : i \in {k \in from..(len - 1) : (k - from) % stride = 0}}

\* min after the scan  if (data[i] < min) min = data[i]  started at min: the
\* least of min and the visited samples; a NaN sample never passes the test
ScanMin(data, from, stride, len, min) ==
    LET cand == (Visited(data, from, stride, len) \ {NaN}) \cup {min}
    IN  CHOOSE m \in cand : \A v \in cand : m <= v

\* max after the scan  if (data[i] > max) max = data[i]  started at max
ScanMax(data, from, stride, len, max) ==
    LET cand == (Visited(data, from, stride, len) \ {NaN}) \cup {max}
    IN  CHOOSE m \in cand : \A v \in cand : m >= v

NiftiStride == 10

\* parseNiftiFile: the typed array of the file, min/max from every 10th sample
parseNiftiFile(code, dims, data) ==
    VolumeData(code, <<3, dims[1], dims[2], dims[3]>>, dims, data,
               ScanMin(data, 0, NiftiStride, Len(data), PosInf),
               ScanMax(data, 0, NiftiStride, Len(data), NegInf))

\* parseDicomFiles: a Float32Array of the series, min/max over every pixel
parseDicomFiles(dims, data) ==
    VolumeData(16, <<3, dims[1], dims[2], dims[3]>>, dims, data,
               ScanMin(data, 0, 1, Len(data), PosInf),
               ScanMax(data, 0, 1, Len(data), NegInf))

(***************************************************************************)
(* utils/imageProcessing.ts                                                *)
(***************************************************************************)
computeVolumeDifference_SumMutant(volA, volB) ==
    IF Len(volA.data) # Len(volB.data) THEN Null
    ELSE LET len == Len(volA.data)
             val == [i \in 1..len |-> IF volA.data[i] = NaN \/ volB.data[i] = NaN THEN NaN
                                      ELSE volB.data[i] + volA.data[i]]
         IN  VolumeData(16, volA.hdims, volB.dimensions,
                        [i \in 1..len |-> Fround(val[i])],
                        ScanMin(val, 0, 1, len, PosInf), ScanMax(val, 0, 1, len, NegInf))

computeVolumeDifference_NoCheckMutant(volA, volB) ==
    LET len == Len(volA.data)
        val == [i \in 1..len |-> IF i <= Len(volB.data) THEN Sub(volB.data[i], volA.data[i]) ELSE NaN]
    IN  VolumeData(16, volA.hdims, volA.dimensions,
                   [i \in 1..len |-> Fround(val[i])],
                   ScanMin(val, 0, 1, len, PosInf), ScanMax(val, 0, 1, len, NegInf))

computeVolumeDifference(volA, volB) ==
    IF Len(volA.data) # Len(volB.data) THEN Null
    ELSE LET len == Len(volA.data)
             \* const val = volB.data[i] - volA.data[i]
             val == [i \in 1..len |-> Sub(volB.data[i], volA.data[i])]
         IN  \* diffData is a Float32Array; min and max are taken from val itself
             VolumeData(16, volA.hdims, volA.dimensions,
                        [i \in 1..len |-> Fround(val[i])],
                        ScanMin(val, 0, 1, len, PosInf), ScanMax(val, 0, 1, len, NegInf))

\* dataX[i] > 0 for a 0-based index i < len; an index past the array reads undefined
Present(seg, i) == seg # Null /\ i <= Len(seg.data) /\ Gt(seg.data[i], 0)

SegDiffLabel_SwapMutant(valA, valB) ==
    IF valA /\ ~valB THEN 2
    ELSE IF ~valA /\ valB THEN 1
    ELSE IF valA /\ valB THEN 3
    ELSE 0

SegDiffLabel(valA, valB) ==
    IF valA /\ ~valB THEN 1
    ELSE IF ~valA /\ valB THEN 2
    ELSE IF valA /\ valB THEN 3
    ELSE 0

computeSegmentationDifference(segA, segB, dimRef) ==
    IF segA = Null /\ segB = Null THEN Null
    ELSE LET len == IF segA # Null THEN Len(segA.data) ELSE Len(segB.data)
         IN  IF len = 0 THEN Null
             ELSE VolumeData(2, <<3, dimRef[1], dimRef[2], dimRef[3]>>, dimRef,
                             [i \in 1..len |-> SegDiffLabel(Present(segA, i), Present(segB, i))],
                             0, 3)

(***************************************************************************)
(* Values of the variables a specification does not use.                   *)
(***************************************************************************)
NoCall == [op |-> "none"]
Pending == [done |-> FALSE]
Returned(v) == [done |-> TRUE, value |-> v]
NoDraw == [called |-> FALSE]
NoPanel == [mounted |-> FALSE]

IdleHarness == fnIn = NoCall /\ fnOut = Pending
IdleCmp == studies = <<>> /\ diffVolume = Null /\ diffSeg = Null /\ comparisonMode = "split"
IdleStudy == volume = Null /\ segmentationVolume = Null
IdleBrush == viewportTool = "wl" /\ brushSize = 5 /\ lastDraw = NoDraw /\ nDraws = 0
NoAlert == ""
IdlePipe ==
    /\ activeTool = "VIEWER" /\ panel = NoPanel /\ runs = {} /\ nMounts = 0 /\ nRuns = 0
    /\ lastAlert = NoAlert
IdleHeap == heap = <<>>

(***************************************************************************)
(* Inputs of the difference utilities: volumes as the parsers deliver      *)
(* them.  Int32 volumes hold integers a 32-bit float cannot hold; Float32  *)
(* volumes hold NaN.                                                       *)
(***************************************************************************)
Int32Samples == {-1, 0, 1, 16777217}
Float32Samples == {0, 1, NaN}
LabelSamples == {-1, 0, 2}

DataOf(S, n) == [1..n -> S]
DimsOfLen(n) == {<<n, 1, 1>>, <<1, n, 1>>}

ParsedVolumes(code, S) ==
    {parseNiftiFile(code, d, data) : <<d, data>> \in
        UNION {DimsOfLen(n) \X DataOf(S, n) : n \in 0..MaxLen}}

DiffVolumes == ParsedVolumes(8, Int32Samples) \cup ParsedVolumes(16, Float32Samples)
DiffMasks == {Null} \cup ParsedVolumes(4, LabelSamples)
DiffDimRefs == UNION {DimsOfLen(n) : n \in 1..MaxLen}

(***************************************************************************)
(* SpecDiff: one call of computeVolumeDifference or of                     *)
(* computeSegmentationDifference on inputs drawn from the sets above.      *)
(***************************************************************************)
InitDiff ==
    /\ IdleHeap
    /\ \/ \E a \in DiffVolumes, b \in DiffVolumes :
              fnIn = [op |-> "computeVolumeDifference", volA |-> a, volB |-> b]
       \/ \E a \in DiffMasks, b \in DiffMasks, d \in DiffDimRefs :
              fnIn = [op |-> "computeSegmentationDifference", segA |-> a, segB |-> b, dimRef |-> d]
    /\ fnOut = Pending
    /\ IdleCmp /\ IdleStudy /\ IdleBrush /\ IdlePipe

CallComputeVolumeDifference ==
    /\ fnIn.op = "computeVolumeDifference"
    /\ fnOut = Pending
    /\ fnOut' = Returned(computeVolumeDifference(fnIn.volA, fnIn.volB))
    /\ UNCHANGED <<fnIn, cmpVars, studyVars, brushVars, pipeVars, heapVars>>

CallComputeSegmentationDifference ==
    /\ fnIn.op = "computeSegmentationDifference"
    /\ fnOut = Pending
    /\ fnOut' = Returned(computeSegmentationDifference(fnIn.segA, fnIn.segB, fnIn.dimRef))
    /\ UNCHANGED <<fnIn, cmpVars, studyVars, brushVars, pipeVars, heapVars>>

NextDiff == CallComputeVolumeDifference \/ CallComputeSegmentationDifference

SpecDiff == InitDiff /\ [][NextDiff]_vars

(***************************************************************************)
(* Claims about the difference utilities (checked under SpecDiff).         *)
(***************************************************************************)
VolDiffReturned == fnIn.op = "computeVolumeDifference" /\ fnOut.done
SegDiffReturned == fnIn.op = "computeSegmentationDifference" /\ fnOut.done

IsMinOver(m, data) ==
    LET idx == {i \in 1..Len(data) : data[i] # NaN}
    IN  idx # {} => (\E i \in idx : data[i] = m) /\ (\A i \in idx : m <= data[i])
IsMaxOver(m, data) ==
    LET idx == {i \in 1..Len(data) : data[i] # NaN}
    IN  idx # {} => (\E i \in idx : data[i] = m) /\ (\A i \in idx : m >= data[i])

\* C4: for equal-length volumes A and B the result has output[i] = B[i] - A[i]
\* for every i, the dimensions of A, and min and max that are exactly the
\* minimum and the maximum over all output elements.
C4_ExactDifferenceAndRange ==
    (VolDiffReturned /\ Len(fnIn.volA.data) = Len(fnIn.volB.data)) =>
        /\ fnOut.value # Null
        /\ \A i \in 1..Len(fnIn.volA.data) :
               fnOut.value.data[i] = Sub(fnIn.volB.data[i], fnIn.volA.data[i])
        /\ fnOut.value.dimensions = fnIn.volA.dimensions
        /\ IsMinOver(fnOut.value.min, fnOut.value.data)
        /\ IsMaxOver(fnOut.value.max, fnOut.value.data)

\* C5 as stated: for any volume A, computeVolumeDifference(A, A) has every
\* element 0 and min = max = 0.
C5_SelfDifferenceZero_AnyVolume ==
    (VolDiffReturned /\ fnIn.volA = fnIn.volB) =>
        /\ fnOut.value # Null
        /\ \A i \in 1..Len(fnOut.value.data) : fnOut.value.data[i] = 0
        /\ fnOut.value.min = 0 /\ fnOut.value.max = 0

AllFinite(data) == \A i \in 1..Len(data) : IsFinite(data[i])

\* C5 (amended): for any non-empty volume A whose samples are all finite,
\* computeVolumeDifference(A, A) has every element 0 and min = max = 0.
C5_SelfDifferenceZero ==
    (VolDiffReturned /\ fnIn.volA = fnIn.volB
        /\ Len(fnIn.volA.data) > 0 /\ AllFinite(fnIn.volA.data)) =>
        /\ fnOut.value # Null
        /\ Len(fnOut.value.data) = Len(fnIn.volA.data)
        /\ \A i \in 1..Len(fnOut.value.data) : fnOut.value.data[i] = 0
        /\ fnOut.value.min = 0 /\ fnOut.value.max = 0

C5_Witness ==
    /\ VolDiffReturned /\ fnIn.volA = fnIn.volB
    /\ fnIn.volA.data = <<16777217, -1>>
    /\ fnOut.value # Null /\ fnOut.value.data = <<0, 0>>

\* value > 0 at voxel i of a mask; a null mask, or a mask that ends before i, has nothing there
Positive(seg, i) ==
    IF seg = Null THEN FALSE
    ELSE IF i > Len(seg.data) THEN FALSE
    ELSE seg.data[i] # NaN /\ seg.data[i] > 0

\* C6: computeSegmentationDifference labels every voxel by presence (value > 0)
\* in the two masks: 0 absent in both, 1 only in A, 2 only in B, 3 in both, a
\* single null mask counting as all-zero; identical masks give only 3 (where
\* positive) and 0, disjoint masks never give 3.
C6_FourWayLabels ==
    (SegDiffReturned /\ fnOut.value # Null) =>
        LET out == fnOut.value.data
            inA(i) == Positive(fnIn.segA, i)
            inB(i) == Positive(fnIn.segB, i)
        IN  /\ Len(out) = (IF fnIn.segA # Null THEN Len(fnIn.segA.data) ELSE Len(fnIn.segB.data))
            /\ \A i \in 1..Len(out) :
                   /\ out[i] = 0 <=> (~inA(i) /\ ~inB(i))
                   /\ out[i] = 1 <=> (inA(i) /\ ~inB(i))
                   /\ out[i] = 2 <=> (~inA(i) /\ inB(i))
                   /\ out[i] = 3 <=> (inA(i) /\ inB(i))
            /\ (fnIn.segA = fnIn.segB) =>
                   \A i \in 1..Len(out) : out[i] = (IF inA(i) THEN 3 ELSE 0)
            /\ (\A i \in 1..Len(out) : ~(inA(i) /\ inB(i))) =>
                   \A i \in 1..Len(out) : out[i] # 3

C6_Witness ==
    /\ SegDiffReturned /\ fnOut.value # Null
    /\ fnIn.segA # Null /\ fnIn.segB # Null
    /\ fnOut.value.data = <<3, 2>>

\* C7: every non-null result of computeSegmentationDifference(segA, segB, dimRef)
\* has labels in 0..3, dimensions dimRef and data length
\* dimRef[0]*dimRef[1]*dimRef[2], whatever the lengths of segA and segB.
C7_MaskShapeMatchesDimRef ==
    (SegDiffReturned /\ fnOut.value # Null) =>
        /\ \A i \in 1..Len(fnOut.value.data) : fnOut.value.data[i] \in 0..3
        /\ fnOut.value.dimensions = fnIn.dimRef
        /\ Len(fnOut.value.data) = fnIn.dimRef[1] * fnIn.dimRef[2] * fnIn.dimRef[3]

(***************************************************************************)
(* SpecCompare: the multi-study comparison state of App.  Studies are      *)
(* added and removed through the callbacks App hands to ComparisonPanel;   *)
(* handleComputeDiff runs on the first two.                                *)
(***************************************************************************)
StudySamples == {0, 1}
StudyLabels == {0, 2}
StudyVolumes == {parseNiftiFile(8, <<n, 1, 1>>, data) : <<n, data>> \in
                    UNION {{n} \X DataOf(StudySamples, n) : n \in 1..MaxLen}}
StudyMasks == {Null} \cup
              {parseNiftiFile(2, <<n, 1, 1>>, data) : <<n, data>> \in
                    UNION {{n} \X DataOf(StudyLabels, n) : n \in 1..MaxLen}}
ComparisonModes == {"split", "overlay", "difference"}

Study(id, vol, seg) == [id |-> id, volume |-> vol, segmentation |-> seg]

InitCompare ==
    /\ IdleHeap
    /\ studies = <<>>
    /\ diffVolume = Null
    /\ diffSeg = Null
    /\ comparisonMode = "split"
    /\ activeTool = "COMPARISON"
    /\ panel = NoPanel /\ runs = {} /\ nMounts = 0 /\ nRuns = 0 /\ lastAlert = NoAlert
    /\ IdleHarness /\ IdleStudy /\ IdleBrush

\* an id no study of the list carries
FreshStudyId ==
    CHOOSE id \in 1..(Len(studies) + 1) : \A k \in 1..Len(studies) : studies[k].id # id

\* onAddStudy={(s) => setStudies(prev => [...prev, s])}
OnAddStudy ==
    /\ Len(studies) < MaxStudies
    /\ \E v \in StudyVolumes, m \in StudyMasks :
           studies' = Append(studies, Study(FreshStudyId, v, m))
    /\ UNCHANGED <<diffVolume, diffSeg, comparisonMode>>
    /\ UNCHANGED <<harnessVars, studyVars, brushVars, pipeVars, heapVars>>

\* onRemoveStudy: filter the study out, drop the computed difference, back to split
OnRemoveStudy ==
    /\ \E k \in 1..Len(studies) :
           studies' = SelectSeq(studies, LAMBDA st : st.id # studies[k].id)
    /\ diffVolume' = Null
    /\ diffSeg' = Null
    /\ comparisonMode' = "split"
    /\ UNCHANGED <<harnessVars, studyVars, brushVars, pipeVars, heapVars>>

OnSetComparisonMode ==
    /\ \E m \in ComparisonModes : comparisonMode' = m
    /\ UNCHANGED <<studies, diffVolume, diffSeg>>
    /\ UNCHANGED <<harnessVars, studyVars, brushVars, pipeVars, heapVars>>

handleComputeDiff ==
    /\ Len(studies) >= 2
    /\ LET vDiff == computeVolumeDifference(studies[1].volume, studies[2].volume)
           sDiff == computeSegmentationDifference(studies[1].segmentation, studies[2].segmentation,
                                                  studies[1].volume.dimensions)
       IN  /\ diffVolume' = IF vDiff # Null THEN vDiff ELSE diffVolume
           /\ diffSeg' = IF sDiff # Null THEN sDiff ELSE diffSeg
    /\ comparisonMode' = "difference"
    /\ UNCHANGED studies
    /\ UNCHANGED <<harnessVars, studyVars, brushVars, pipeVars, heapVars>>

NextCompare == OnAddStudy \/ OnRemoveStudy \/ OnSetComparisonMode \/ handleComputeDiff

SpecCompare == InitCompare /\ [][NextCompare]_vars

\* C2: when the two studies' volumes have different data lengths,
\* handleComputeDiff stores neither a difference volume nor a
\* segmentation-difference mask and does not enter the 'difference' mode.
C2_MismatchLeavesNoResult ==
    [][(handleComputeDiff /\ Len(studies[1].volume.data) # Len(studies[2].volume.data)) =>
          /\ diffVolume' = diffVolume /\ diffVolume' = Null
          /\ diffSeg' = diffSeg
          /\ comparisonMode' = comparisonMode]_vars

(***************************************************************************)
(* SpecBrush: manual paint / erase (Viewport.handleDraw), driven by the    *)
(* mouse events of a SliceViewer, the brush-size slider and the tool       *)
(* buttons.                                                                *)
(***************************************************************************)
SmallDims == {<<2, 2, 1>>, <<3, 1, 2>>}
BigDims == {<<7, 7, 7>>}
BrushLabels == {0, 1}
SegLabels == {0, 1, 3}
BigCentres == {<<3, 3, 3>>, <<0, 0, 0>>, <<6, 3, 1>>}
BrushTools == {"wl", "brush", "eraser"}

NumVoxels(dims) == dims[1] * dims[2] * dims[3]
Filled(n, v) == [i \in 1..n |-> v]

\* a loaded scan of the given dimensions; the brush reads only its shape
ScanOf(dims) == parseNiftiFile(16, dims, Filled(NumVoxels(dims), 0))

\* a byte mask over the volume, as runSegmentation or an earlier stroke leaves it
MaskOf(vol, data) ==
    VolumeData(2, vol.hdims, vol.dimensions, data, 0, 1)

StartMasks(vol) ==
    LET n == Len(vol.data)
    IN  {Null} \cup
        (IF vol.dimensions \in BigDims
         THEN {MaskOf(vol, Filled(n, 0)), MaskOf(vol, Filled(n, 3))}
         ELSE IF vol.dimensions = <<2, 2, 1>>
              THEN {MaskOf(vol, d) : d \in DataOf(SegLabels, n)}
              ELSE {MaskOf(vol, d) : d \in DataOf(BrushLabels, n)})

\* the voxels a mouse event of a slice viewer can address: u, v and slice are clamped to the volume
Centres(vol) ==
    IF vol.dimensions \in BigDims THEN BigCentres
    ELSE (0..(vol.dimensions[1] - 1)) \X (0..(vol.dimensions[2] - 1)) \X (0..(vol.dimensions[3] - 1))

\* dx*dx + dy*dy + dz*dz <= r2
InSphere_StrictMutant(dx, dy, dz, radius) == dx * dx + dy * dy + dz * dz < radius * radius
InSphere(dx, dy, dz, radius) == dx * dx + dy * dy + dz * dz <= radius * radius

\* px>=0 && px<dimX && py>=0 && py<dimY && pz>=0 && pz<dimZ
InBounds(px, py, pz, dims) ==
    /\ px >= 0 /\ px < dims[1]
    /\ py >= 0 /\ py < dims[2]
    /\ pz >= 0 /\ pz < dims[3]

\* the 0-based indices idx = pz*dimX*dimY + py*dimX + px the three loops write
DrawnIndices(x, y, z, radius, dims) ==
    {(z + dz) * dims[1] * dims[2] + (y + dy) * dims[1] + (x + dx) :
        <<dx, dy, dz>> \in {o \in (-radius..radius) \X (-radius..radius) \X (-radius..radius) :
                               /\ InSphere(o[1], o[2], o[3], radius)
                               /\ InBounds(x + o[1], y + o[2], z + o[3], dims)}}

\* segVol.data[idx] = val on a Uint8Array
BrushStore_AddMutant(old, val) == ToUint8(old + val)
BrushStore(old, val) == ToUint8(val)

\* the mask handleDraw publishes for the current volume and mask
DrawResult(vol, seg, x, y, z, val, radius) ==
    LET segVol == IF seg # Null THEN seg
                  ELSE VolumeData(2, vol.hdims, vol.dimensions, Filled(Len(vol.data), 0), 0, 1)
        hit == DrawnIndices(x, y, z, radius, vol.dimensions)
    IN  [segVol EXCEPT !.data =
            [i \in 1..Len(segVol.data) |->
                IF (i - 1) \in hit THEN BrushStore(segVol.data[i], val) ELSE segVol.data[i]]]

InitBrush ==
    /\ IdleHeap
    /\ volume \in {ScanOf(d) : d \in SmallDims \cup BigDims}
    /\ segmentationVolume \in StartMasks(volume)
    /\ viewportTool = "wl"
    /\ brushSize \in 1..MaxBrush
    /\ lastDraw = NoDraw
    /\ nDraws = 0
    /\ activeTool = "SEGMENTATION"
    /\ panel = NoPanel /\ runs = {} /\ nMounts = 0 /\ nRuns = 0 /\ lastAlert = NoAlert
    /\ IdleHarness /\ IdleCmp

\* the brush-size slider of the segmentation panel (1..50)
OnBrushSizeChange ==
    /\ \E n \in 1..MaxBrush : brushSize' = n
    /\ UNCHANGED <<viewportTool, lastDraw, nDraws>>
    /\ UNCHANGED <<harnessVars, cmpVars, studyVars, pipeVars, heapVars>>

OnSelectViewportTool ==
    /\ \E t \in BrushTools : viewportTool' = t
    /\ UNCHANGED <<brushSize, lastDraw, nDraws>>
    /\ UNCHANGED <<harnessVars, cmpVars, studyVars, pipeVars, heapVars>>

\* SliceViewer.handleMouseMove with the brush or the eraser selected:
\* onDraw(vx, vy, vz, tool === 'brush' ? 1 : 0, brushSize), then handleDraw
handleDraw ==
    /\ volume # Null
    /\ viewportTool \in {"brush", "eraser"}
    /\ nDraws < MaxDraws
    /\ \E c \in Centres(volume) :
           LET val == IF viewportTool = "brush" THEN 1 ELSE 0
           IN  /\ segmentationVolume' =
                      DrawResult(volume, segmentationVolume, c[1], c[2], c[3], val, brushSize)
               /\ lastDraw' = [called |-> TRUE, x |-> c[1], y |-> c[2], z |-> c[3],
                               val |-> val, radius |-> brushSize]
    /\ nDraws' = nDraws + 1
    /\ UNCHANGED <<volume, viewportTool, brushSize>>
    /\ UNCHANGED <<harnessVars, cmpVars, pipeVars, heapVars>>

NextBrush == OnBrushSizeChange \/ OnSelectViewportTool \/ handleDraw

SpecBrush == InitBrush /\ [][NextBrush]_vars

(***************************************************************************)
(* Claims about the brush (checked under SpecBrush).                       *)
(***************************************************************************)
\* the mask data a stroke starts from: the current mask, or all zero when there is none
StartData == IF segmentationVolume = Null THEN Filled(Len(volume.data), 0)
             ELSE segmentationVolume.data

\* a centre whose whole bounding cube of radius r lies inside the volume
FullyInterior(x, y, z, r, dims) ==
    /\ x - r >= 0 /\ x + r < dims[1]
    /\ y - r >= 0 /\ y + r < dims[2]
    /\ z - r >= 0 /\ z + r < dims[3]

C9_BrushIdempotent ==
    lastDraw.called =>
        DrawResult(volume, segmentationVolume, lastDraw.x, lastDraw.y, lastDraw.z,
                   lastDraw.val, lastDraw.radius) = segmentationVolume

C9_Witness ==
    /\ lastDraw.called
    /\ nDraws = 2
    /\ lastDraw.val = 1 /\ lastDraw.radius = 1
    /\ \E i \in 1..Len(segmentationVolume.data) : segmentationVolume.data[i] = 1
    /\ \E i \in 1..Len(segmentationVolume.data) : segmentationVolume.data[i] = 3

(***************************************************************************)
(* ProcessingPanel: getHistogram, computeOtsuThreshold, computeLiThreshold.*)
(* A histogram is the function 0..255 -> count of its Int32Array.          *)
(***************************************************************************)
NumBins == 256
StrideAbove == 2000000
StrideTarget == 500000

Bins == 0..(NumBins - 1)

\* max - min || 1
HistRange(min, max) ==
    IF IsFinite(min) /\ IsFinite(max) THEN OrElse(max - min, 1)
    ELSE IF min = NaN \/ max = NaN \/ min = max THEN 1
    ELSE IF max = PosInf \/ min = NegInf THEN PosInf ELSE NegInf

\* Math.floor((val - min) * step) with step = 256 / range: the floor of the exact
\* quotient (the double product has the same floor for the ranges modelled: those
\* below 49, and 256); with a NaN sample or an infinite min or max the product is
\* NaN or infinite and passes no bin test
BinOf(val, min, max) ==
    IF val = NaN \/ ~IsFinite(min) \/ ~IsFinite(max) THEN NaN
    ELSE ((val - min) * NumBins) \div HistRange(min, max)

\* the indices (0-based) the loop of getHistogram visits
HistStride(len) == IF len > StrideAbove THEN len \div StrideTarget ELSE 1
HistVisited(len) == {i \in 0..(len - 1) : i % HistStride(len) = 0}

\* getHistogram: a sample is counted if its bin passes  bin >= 0 && bin < 256
\* (@@ <<>> leaves the function as it is and has its 256 counts computed once)
getHistogram(data, min, max) ==
    LET bin(i) == BinOf(data[i + 1], min, max)
    IN  [histogram |->
            [b \in Bins |->
                Cardinality({i \in HistVisited(Len(data)) :
                    bin(i) # NaN /\ bin(i) >= 0 /\ bin(i) < NumBins /\ bin(i) = b})] @@ <<>>,
         step |-> [num |-> NumBins, den |-> HistRange(min, max)]]

\* the bins with a count, in ascending order
RECURSIVE AscendingBins(_)
AscendingBins(S) ==
    IF S = {} THEN <<>>
    ELSE LET m == CHOOSE x \in S : \A y \in S : x <= y
         IN  <<m>> \o AscendingBins(S \ {m})

Counted(histogram) == {i \in Bins : histogram[i] # 0}

\* sum of histogram[i] and of i * histogram[i] for i = lo..hi (by halves)
RECURSIVE HistCount(_, _, _)
HistCount(histogram, lo, hi) ==
    IF lo > hi THEN 0
    ELSE IF lo = hi THEN histogram[lo]
    ELSE LET mid == (lo + hi) \div 2
         IN  HistCount(histogram, lo, mid) + HistCount(histogram, mid + 1, hi)

RECURSIVE HistMoment(_, _, _)
HistMoment(histogram, lo, hi) ==
    IF lo > hi THEN 0
    ELSE IF lo = hi THEN lo * histogram[lo]
    ELSE LET mid == (lo + hi) \div 2
         IN  HistMoment(histogram, lo, mid) + HistMoment(histogram, mid + 1, hi)

\* for (let i = 0; i < 256; i++) total += histogram[i]
HistTotal(histogram) == HistCount(histogram, 0, NumBins - 1)

\* computeOtsuThreshold from bin t = bins[k] on.  A bin without a count leaves wB,
\* sumB and varBetween as they were at the bin before it (or is skipped by the
\* continue while wB is 0), so the loop's tests change only at the counted bins.
\* varBetween = wB * wF * (mB - mF)^2 is the quotient varNum / varDen, compared
\* with maxVar = maxNum / maxDen by cross-multiplication.  The code computes
\* mB, mF and varBetween in doubles: where the two quotients are equal, the
\* rounded values can compare either way (bins 0, 1, 2 with counts 1, 2, 1:
\* 5.333333333333333 at t = 0, 5.333333333333334 at t = 1), so both outcomes of
\* the test are taken; unequal quotients of the sizes modelled differ by far
\* more than the rounding.  The result is the set of thresholds the loop can
\* end with.
RECURSIVE OtsuLoop(_, _, _, _, _, _, _, _, _)
OtsuLoop(histogram, total, sum, bins, k, wB0, sumB0, maxVar, threshold) ==
    IF k > Len(bins) THEN {threshold}
    ELSE LET t == bins[k]
             wB == wB0 + histogram[t]
             wF == total - wB
             sumB == sumB0 + t * histogram[t]
             diff == sumB * wF - (sum - sumB) * wB
             varNum == diff * diff
             varDen == wB * wF
             raised == OtsuLoop(histogram, total, sum, bins, k + 1, wB, sumB,
                                [num |-> varNum, den |-> varDen], t)
             kept == OtsuLoop(histogram, total, sum, bins, k + 1, wB, sumB,
                              maxVar, threshold)
         IN  IF wF = 0 THEN {threshold}
             ELSE IF varNum * maxVar.den > maxVar.num * varDen THEN raised
             ELSE IF varNum * maxVar.den < maxVar.num * varDen \/ varNum = 0 THEN kept
             ELSE raised \cup kept

computeOtsuThreshold(histogram, total) ==
    OtsuLoop(histogram, total, HistMoment(histogram, 0, NumBins - 1),
             AscendingBins(Counted(histogram)), 1, 0, 0, [num |-> 0, den |-> 1], 0)

LiIterations == 50

LiStart_SumMutant(histogram, total) ==
    IF total = 0 THEN NaN ELSE HistMoment(histogram, 0, NumBins - 1)

\* Math.round(sum / total): the floor of the exact quotient plus one half
LiStart(histogram, total) ==
    IF total = 0 THEN NaN
    ELSE (2 * HistMoment(histogram, 0, NumBins - 1) + total) \div (2 * total)

\* the least integer not below p / q, for q > 0
CeilDiv(p, q) == -((-p) \div q)

\* one pass of the loop body of computeLiThreshold at the current threshold: the two
\* partitions, and the values newThreshold may take.  temp = (mF - mB) / (log mF - log mB)
\* is the logarithmic mean of mB < mF: it lies strictly between their geometric and
\* their arithmetic mean, so Math.round(temp) is an integer k with
\* k + 1/2 > sqrt(mB * mF) and k - 1/2 < (mB + mF) / 2, that is
\* (2k+1)^2 > 4 sumB sumF / (wB wF) and 2k - 1 < (sumB wF + sumF wB) / (wB wF).
\* With mB = 0, log mB is -Infinity and temp is 0.  A NaN threshold fails both
\* loop tests and leaves both partitions empty.
LiPass(histogram, threshold) ==
    LET wB == IF threshold = NaN THEN 0 ELSE HistCount(histogram, 0, threshold)
        sumB == IF threshold = NaN THEN 0 ELSE HistMoment(histogram, 0, threshold)
        wF == IF threshold = NaN THEN 0 ELSE HistCount(histogram, threshold + 1, NumBins - 1)
        sumF == IF threshold = NaN THEN 0 ELSE HistMoment(histogram, threshold + 1, NumBins - 1)
    IN  [wB |-> wB, wF |-> wF,
         newThreshold |->
            IF wB = 0 \/ wF = 0 THEN {}
            ELSE IF sumB = 0 THEN {0}
            ELSE {k \in Bins :
                    /\ (2 * k + 1) * (2 * k + 1) > (4 * sumB * sumF) \div (wB * wF)
                    /\ 2 * k - 1 < CeilDiv(sumB * wF + sumF * wB, wB * wF)}]

\* the thresholds computeLiThreshold can return when its loop stands at one of the
\* thresholds of cur with iter passes done: those a pass breaks at, and those the
\* loop ends at after another pass.  When a pass maps cur onto itself every later
\* pass does, and the thresholds left at the end of the loop are those of cur.
RECURSIVE LiLoop(_, _, _)
LiLoop(histogram, cur, iter) ==
    IF iter = LiIterations \/ cur = {} THEN cur
    ELSE LET pass == [t \in cur |-> LiPass(histogram, t)]
             stopped == {t \in cur : pass[t].wB = 0 \/ pass[t].wF = 0
                                     \/ t \in pass[t].newThreshold}
             moved == UNION {pass[t].newThreshold \ {t} : t \in cur}
         IN  IF moved = cur THEN cur
             ELSE stopped \cup LiLoop(histogram, moved, iter + 1)

\* the thresholds computeLiThreshold can return
computeLiThreshold(histogram, total) ==
    LiLoop(histogram, {LiStart(histogram, total)}, 0)

(***************************************************************************)
(* SpecHist: one call of getHistogram, or of computeLiThreshold on the     *)
(* histogram of a volume, with the volume's own min and max as             *)
(* runSegmentation passes them.  computeLiThreshold is run pass by pass.   *)
(***************************************************************************)
HistSamples == {0, 1, 3, 4}
HistInt16Samples == {-1, 0, 2}
HistFloatSamples == {1, 3, NaN}

\* 257 samples 0..256: one sample in each of the 256 bins, the last one in none
UniformVolume == parseDicomFiles(<<257, 1, 1>>, [i \in 1..257 |-> i - 1])

HistVolumes ==
    {UniformVolume}
    \cup {parseDicomFiles(<<n, 1, 1>>, data) : <<n, data>> \in
             UNION {{n} \X DataOf(HistSamples, n) : n \in 1..MaxLen}}
    \cup ParsedVolumes(4, HistInt16Samples)
    \cup ParsedVolumes(16, HistFloatSamples)

\* volumes for computeOtsuThreshold: the small ones, and series with three and
\* four counted bins (the sample equal to max is in no bin)
OtsuSeries ==
    {<<0, 1, 1, 2, 8>>, <<0, 1, 7, 8>>, <<0, 2, 4, 6, 8>>, <<0, 0, 1, 3, 3, 3, 4>>, <<5, 5, 5>>}

OtsuVolumes ==
    (HistVolumes \ {UniformVolume})
    \cup {parseDicomFiles(<<Len(data), 1, 1>>, data) : data \in OtsuSeries}

InitHist ==
    /\ IdleHeap
    /\ \/ \E v \in HistVolumes, op \in {"getHistogram", "computeLiThreshold"} :
            fnIn = [op |-> op, volume |-> v]
       \/ \E v \in OtsuVolumes : fnIn = [op |-> "computeOtsuThreshold", volume |-> v]
    /\ fnOut = Pending
    /\ IdleCmp /\ IdleStudy /\ IdleBrush /\ IdlePipe

CallGetHistogram ==
    /\ fnIn.op = "getHistogram"
    /\ fnOut = Pending
    /\ fnOut' = Returned(getHistogram(fnIn.volume.data, fnIn.volume.min, fnIn.volume.max))
    /\ UNCHANGED <<fnIn, cmpVars, studyVars, brushVars, pipeVars, heapVars>>

\* computeLiThreshold standing at the head of its loop, and returned after some passes
LiAtLoop(histogram, total, threshold, iter) ==
    [done |-> FALSE, histogram |-> histogram, total |-> total,
     threshold |-> threshold, iter |-> iter]
LiReturned(total, threshold, passes, emptyPartition) ==
    [done |-> TRUE, total |-> total, value |-> threshold, passes |-> passes,
     emptyPartition |-> emptyPartition]

\* computeLiThreshold(histogram, total) up to its loop
CallComputeLiThreshold ==
    /\ fnIn.op = "computeLiThreshold"
    /\ fnOut = Pending
    /\ LET histogram == getHistogram(fnIn.volume.data, fnIn.volume.min,
                                     fnIn.volume.max).histogram
           total == HistTotal(histogram)
       IN  fnOut' = LiAtLoop(histogram, total, LiStart(histogram, total), 0)
    /\ UNCHANGED <<fnIn, cmpVars, studyVars, brushVars, pipeVars, heapVars>>

\* one pass of the loop: break on an empty partition or on a fixed threshold,
\* else move to newThreshold; the loop ends after LiIterations passes
LiIterate ==
    /\ fnIn.op = "computeLiThreshold"
    /\ fnOut # Pending /\ ~fnOut.done
    /\ LET pass == LiPass(fnOut.histogram, fnOut.threshold)
       IN  IF pass.wB = 0 \/ pass.wF = 0
           THEN fnOut' = LiReturned(fnOut.total, fnOut.threshold, fnOut.iter + 1, TRUE)
           ELSE \E newThreshold \in pass.newThreshold :
                  fnOut' = IF newThreshold = fnOut.threshold \/ fnOut.iter + 1 = LiIterations
                           THEN LiReturned(fnOut.total, newThreshold, fnOut.iter + 1, FALSE)
                           ELSE LiAtLoop(fnOut.histogram, fnOut.total, newThreshold,
                                         fnOut.iter + 1)
    /\ UNCHANGED <<fnIn, cmpVars, studyVars, brushVars, pipeVars, heapVars>>

\* computeOtsuThreshold(histogram, total) on the histogram of the volume
CallComputeOtsuThreshold ==
    /\ fnIn.op = "computeOtsuThreshold"
    /\ fnOut = Pending
    /\ LET histogram == getHistogram(fnIn.volume.data, fnIn.volume.min,
                                     fnIn.volume.max).histogram
           total == HistTotal(histogram)
       IN  \E threshold \in computeOtsuThreshold(histogram, total) :
              fnOut' = [done |-> TRUE, histogram |-> histogram, total |-> total,
                        value |-> threshold]
    /\ UNCHANGED <<fnIn, cmpVars, studyVars, brushVars, pipeVars, heapVars>>

NextHist ==
    \/ CallGetHistogram
    \/ CallComputeOtsuThreshold
    \/ CallComputeLiThreshold
    \/ LiIterate

SpecHist == InitHist /\ [][NextHist]_vars

HistReturned == fnIn.op = "getHistogram" /\ fnOut.done

\* C13: the 256 bin counts returned by getHistogram sum to the number of
\* samples visited (every index 0, stride, 2*stride, ... below data.length).
C13_BinsSumToVisited ==
    HistReturned =>
        HistTotal(fnOut.value.histogram) = Cardinality(HistVisited(Len(fnIn.volume.data)))

\* C14: getHistogram counts every visited sample v with min <= v <= max in the
\* bin floor((v - min) * binWidth) clamped to [0,255] (a sample equal to max
\* in bin 255), and drops only the samples outside [min, max].
C14_InRangeSamplesCounted ==
    HistReturned =>
        LET data == fnIn.volume.data
            min == fnIn.volume.min
            max == fnIn.volume.max
            bin(v) == ((v - min) * NumBins) \div (IF max = min THEN 1 ELSE max - min)
            clamped(v) == IF bin(v) > NumBins - 1 THEN NumBins - 1
                          ELSE IF bin(v) < 0 THEN 0 ELSE bin(v)
        IN  \A b \in Bins :
               fnOut.value.histogram[b] =
                   Cardinality({i \in HistVisited(Len(data)) :
                       /\ data[i + 1] # NaN /\ min <= data[i + 1] /\ data[i + 1] <= max
                       /\ clamped(data[i + 1]) = b})

LiCalled == fnIn.op = "computeLiThreshold" /\ fnOut # Pending

\* the loop never starts a pass beyond the 50th, and every threshold it holds or
\* returns on a histogram with a count is a bin
LiBounded ==
    (LiCalled /\ fnOut.total > 0) =>
        IF fnOut.done
        THEN fnOut.passes <= 50 /\ fnOut.value \in 0..255
        ELSE fnOut.iter < 50 /\ fnOut.threshold \in 0..255

\* a pass that finds a partition empty ends the call with the threshold it was run at
LiKeepsLastThreshold ==
    (LiIterate /\ (LiPass(fnOut.histogram, fnOut.threshold).wB = 0
                   \/ LiPass(fnOut.histogram, fnOut.threshold).wF = 0))
        => (fnOut'.done /\ fnOut'.value = fnOut.threshold)

\* C15: on a histogram with positive total count computeLiThreshold runs at
\* most 50 passes of its loop and returns an integer bin in [0,255]; when a
\* partition at the current threshold is empty the loop stops and the last
\* valid threshold is returned.
C15_LiTerminatesInRange == []LiBounded /\ [][LiKeepsLastThreshold]_vars

\* the uniform histogram: returned after more than one pass
C15_Witness ==
    /\ LiCalled /\ fnOut.done
    /\ fnIn.volume = UniformVolume /\ fnOut.total = 256
    /\ fnOut.passes > 1 /\ fnOut.value \in 0..255

(***************************************************************************)
(* SpecSeg: one run of ProcessingPanel.runSegmentation.  The run reads     *)
(* the volume and the panel state of the render it was started from, so    *)
(* its mask is determined by (volume, segMethod, manualThreshold,          *)
(* manualUpper), up to the rounding of computeLiThreshold.                 *)
(***************************************************************************)
UserSegMethods == {"binary", "binary_inv", "truncate", "range_pass", "local_adaptive"}

\* the per-voxel rule of the scan loop; mask is a zero-filled Uint8Array
SegLabel_StrictMutant(segMethod, val, threshold, upperThreshold) ==
    IF segMethod \in {"binary", "truncate"} THEN (IF Gt(val, threshold) THEN 1 ELSE 0)
    ELSE IF segMethod = "binary_inv" THEN (IF Lt(val, threshold) THEN 1 ELSE 0)
    ELSE IF segMethod = "range_pass"
         THEN (IF Ge(val, threshold) /\ Le(val, upperThreshold) THEN 1 ELSE 0)
    ELSE IF segMethod \in {"otsu", "li"} THEN (IF Ge(val, threshold) THEN 1 ELSE 0)
    ELSE IF segMethod = "multi_otsu"
         THEN (IF Ge(val, threshold) /\ Lt(val, upperThreshold) THEN 1
               ELSE IF Ge(val, upperThreshold) THEN 2 ELSE 0)
    ELSE IF segMethod = "local_adaptive" THEN (IF Ge(val, threshold) THEN 3 ELSE 0)
    ELSE 0

SegLabel_UpperMutant(segMethod, val, threshold, upperThreshold) ==
    IF segMethod \in {"binary", "truncate"} THEN (IF Ge(val, threshold) THEN 1 ELSE 0)
    ELSE IF segMethod = "binary_inv" THEN (IF Le(val, threshold) THEN 1 ELSE 0)
    ELSE IF segMethod = "range_pass"
         THEN (IF Ge(val, threshold) /\ Ge(val, upperThreshold) THEN 1 ELSE 0)
    ELSE IF segMethod \in {"otsu", "li"} THEN (IF Ge(val, threshold) THEN 1 ELSE 0)
    ELSE IF segMethod = "multi_otsu"
         THEN (IF Ge(val, threshold) /\ Lt(val, upperThreshold) THEN 1
               ELSE IF Ge(val, upperThreshold) THEN 2 ELSE 0)
    ELSE IF segMethod = "local_adaptive" THEN (IF Ge(val, threshold) THEN 3 ELSE 0)
    ELSE 0

SegLabel(segMethod, val, threshold, upperThreshold) ==
    IF segMethod \in {"binary", "truncate"} THEN (IF Ge(val, threshold) THEN 1 ELSE 0)
    ELSE IF segMethod = "binary_inv" THEN (IF Le(val, threshold) THEN 1 ELSE 0)
    ELSE IF segMethod = "range_pass"
         THEN (IF Ge(val, threshold) /\ Le(val, upperThreshold) THEN 1 ELSE 0)
    ELSE IF segMethod \in {"otsu", "li"} THEN (IF Ge(val, threshold) THEN 1 ELSE 0)
    ELSE IF segMethod = "multi_otsu"
         THEN (IF Ge(val, threshold) /\ Lt(val, upperThreshold) THEN 1
               ELSE IF Ge(val, upperThreshold) THEN 2 ELSE 0)
    ELSE IF segMethod = "local_adaptive" THEN (IF Ge(val, threshold) THEN 3 ELSE 0)
    ELSE 0

SegVol_TagMutant(vol, mask) ==
    VolumeData(vol.datatypeCode, vol.hdims, vol.dimensions, mask, 0, 255)

\* segVol: the header of the volume with datatypeCode 2, its dimensions, the mask
SegVol(vol, mask) == VolumeData(2, vol.hdims, vol.dimensions, mask, 0, 255)

\* the segVol runSegmentation hands to onUpdateSegmentation, user-threshold methods
runSegmentationResult(vol, segMethod, manualThreshold, manualUpper) ==
    LET threshold == manualThreshold
        upperThreshold == manualUpper
    IN  SegVol(vol, [j \in 1..Len(vol.data) |->
                        SegLabel(segMethod, vol.data[j], threshold, upperThreshold)])

AutoSegMethods == {"otsu", "li", "multi_otsu"}

\* a number in units of 1/256, the denominator of min + bin / step
Scaled(v) == IF IsFinite(v) THEN v * NumBins ELSE v

\* min + (bin / step), in units of 1/256; NaN with a NaN bin, and with the zero step
\* of an infinite range (0 / 0)
AutoThreshold(vol, bin) ==
    IF bin = NaN \/ ~IsFinite(vol.min) \/ ~IsFinite(vol.max) THEN NaN
    ELSE vol.min * NumBins + bin * HistRange(vol.min, vol.max)

UpperBin_NoGuardMutant(t1Bin, t2Bin) == t2Bin

\* Math.max(t1Bin + 1, t2Bin), the bin of multi_otsu's upper threshold
UpperBin(t1Bin, t2Bin) == IF t1Bin + 1 > t2Bin THEN t1Bin + 1 ELSE t2Bin

\* the (threshold, upperThreshold) pairs the automatic methods can compute, in
\* units of 1/256
AutoThresholds(vol, segMethod, manualUpper) ==
    LET histogram == getHistogram(vol.data, vol.min, vol.max).histogram
        total == HistTotal(histogram)
        hist2(t1Bin) == [i \in Bins |-> IF i >= t1Bin THEN histogram[i] ELSE 0]
        total2(t1Bin) == HistCount(histogram, t1Bin, NumBins - 1)
    IN  IF segMethod = "otsu"
        THEN {[threshold |-> AutoThreshold(vol, t1Bin), upperThreshold |-> Scaled(manualUpper)] :
                 t1Bin \in computeOtsuThreshold(histogram, total)}
        ELSE IF segMethod = "li"
        THEN {[threshold |-> AutoThreshold(vol, thresholdBin),
               upperThreshold |-> Scaled(manualUpper)] :
                 thresholdBin \in computeLiThreshold(histogram, total)}
        ELSE UNION {{[threshold |-> AutoThreshold(vol, t1Bin),
                      upperThreshold |-> AutoThreshold(vol, UpperBin(t1Bin, t2Bin))] :
                        t2Bin \in computeOtsuThreshold(hist2(t1Bin), total2(t1Bin))} :
                    t1Bin \in computeOtsuThreshold(histogram, total)}

\* the segVols runSegmentation can hand to onUpdateSegmentation
runSegmentationResults(vol, segMethod, manualThreshold, manualUpper) ==
    IF segMethod \in AutoSegMethods
    THEN {SegVol(vol, [j \in 1..Len(vol.data) |->
                          SegLabel(segMethod, Scaled(vol.data[j]), t.threshold,
                                   t.upperThreshold)]) :
            t \in AutoThresholds(vol, segMethod, manualUpper)}
    ELSE {runSegmentationResult(vol, segMethod, manualThreshold, manualUpper)}

\* the values of a threshold slider: min={volume?.min || 0} max={volume?.max || 255}
SliderValues(vol) == OrElse(vol.min, 0)..OrElse(vol.max, 255)

\* the 4x4x4 linear ramp 0..63
RampVolume == parseDicomFiles(<<4, 4, 4>>, [i \in 1..64 |-> i - 1])

DicomSamples == {1, 2, 4}
SegInt16Samples == {-1, 2, 3}
SegVolumes ==
    {RampVolume}
    \cup {parseDicomFiles(<<n, 1, 1>>, data) : <<n, data>> \in
             UNION {{n} \X DataOf(DicomSamples, n) : n \in 1..MaxLen}}
    \cup {v \in ParsedVolumes(16, {1, 3, NaN}) : Len(v.data) > 0 /\ v.data[1] # NaN}
    \cup {v \in ParsedVolumes(4, SegInt16Samples) : Len(v.data) > 0}

\* volumes of two clusters: up to MaxCluster low values, then as many high values
LowValues == {0, 1}
HighValues == {7, 8}
ClusterVolumes ==
    {parseDicomFiles(<<Len(low) + Len(high), 1, 1>>, low \o high) :
        <<low, high>> \in UNION {DataOf(LowValues, nl) \X DataOf(HighValues, nh) :
                                    <<nl, nh>> \in (1..MaxCluster) \X (1..MaxCluster)}}

\* the volumes the automatic methods are run on (the sums of computeOtsuThreshold
\* stay within the integers of the checker)
\* Float32 volumes whose sampled voxel is NaN: parseNiftiFile leaves min at
\* Infinity and max at -Infinity
UnsampledVolumes ==
    {v \in ParsedVolumes(16, {1, 3, NaN}) : Len(v.data) > 0 /\ v.data[1] = NaN}

AutoSegVolumes == (SegVolumes \ {RampVolume}) \cup ClusterVolumes \cup UnsampledVolumes

\* the thresholds set when the volume loads: floor(min + range * 0.3), floor(min + range * 0.7);
\* NaN when min and max are infinite (Infinity + -Infinity)
DefaultThreshold(vol) ==
    IF IsFinite(vol.min) /\ IsFinite(vol.max)
    THEN vol.min + (3 * (vol.max - vol.min)) \div 10 ELSE NaN
DefaultUpper(vol) ==
    IF IsFinite(vol.min) /\ IsFinite(vol.max)
    THEN vol.min + (7 * (vol.max - vol.min)) \div 10 ELSE NaN

InitSeg ==
    /\ IdleHeap
    /\ \/ \E v \in SegVolumes, m \in UserSegMethods :
            \E t \in SliderValues(v), u \in SliderValues(v) :
              fnIn = [op |-> "runSegmentation", volume |-> v, segMethod |-> m,
                      manualThreshold |-> t, manualUpper |-> u]
       \/ \E v \in AutoSegVolumes, m \in AutoSegMethods :
              fnIn = [op |-> "runSegmentation", volume |-> v, segMethod |-> m,
                      manualThreshold |-> DefaultThreshold(v),
                      manualUpper |-> DefaultUpper(v)]
    /\ fnOut = Pending
    /\ volume = fnIn.volume
    /\ segmentationVolume = Null
    /\ activeTool = "SEGMENTATION"
    /\ panel = NoPanel /\ runs = {} /\ nMounts = 0 /\ nRuns = 0 /\ lastAlert = NoAlert
    /\ IdleCmp /\ IdleBrush

\* runSegmentation from its first line to onUpdateSegmentation(segVol)
runSegmentation ==
    /\ fnIn.op = "runSegmentation"
    /\ fnOut = Pending
    /\ volume # Null
    /\ fnIn.segMethod # "manual_draw"
    /\ \E segVol \in runSegmentationResults(volume, fnIn.segMethod,
                                            fnIn.manualThreshold, fnIn.manualUpper) :
          /\ segmentationVolume' = segVol
          /\ fnOut' = Returned(segVol)
    /\ UNCHANGED <<fnIn, volume, cmpVars, brushVars, pipeVars, heapVars>>

NextSeg == runSegmentation

SpecSeg == InitSeg /\ [][NextSeg]_vars

SegReturned == fnIn.op = "runSegmentation" /\ fnOut.done

\* C10: for binary and truncate the mask has label 1 iff v >= threshold (else
\* 0), for binary_inv label 1 iff v <= threshold (else 0); on the 4x4x4 ramp
\* 0..63 with binary threshold 32 exactly the 32 voxels with value >= 32 are
\* labelled.
C10_UserThresholdRule ==
    SegReturned =>
        LET data == fnIn.volume.data
            mask == segmentationVolume.data
            t == fnIn.manualThreshold
        IN  /\ Len(mask) = Len(data)
            /\ fnIn.segMethod \in {"binary", "truncate"} =>
                   \A j \in 1..Len(data) :
                       mask[j] = (IF data[j] # NaN /\ data[j] >= t THEN 1 ELSE 0)
            /\ fnIn.segMethod = "binary_inv" =>
                   \A j \in 1..Len(data) :
                       mask[j] = (IF data[j] # NaN /\ data[j] <= t THEN 1 ELSE 0)
            /\ (fnIn.volume = RampVolume /\ fnIn.segMethod = "binary" /\ t = 32) =>
                   /\ Cardinality({j \in 1..64 : mask[j] = 1}) = 32
                   /\ \A j \in 1..64 : mask[j] = 1 <=> j - 1 >= 32

C10_Witness ==
    /\ SegReturned
    /\ fnIn.volume = RampVolume /\ fnIn.volume.min = 0 /\ fnIn.volume.max = 63
    /\ fnIn.segMethod = "binary" /\ fnIn.manualThreshold = 32
    /\ Cardinality({j \in 1..64 : segmentationVolume.data[j] = 1}) = 32

\* the voxels (1-based) a mask labels 1
Foreground(mask) == {j \in 1..Len(mask.data) : mask.data[j] = 1}

\* C11: range_pass labels a voxel 1 iff lower <= v <= upper (else 0), and for
\* the same volume and lower bound every higher upper bound labels 1 every
\* voxel labelled 1 before, so the foreground count never decreases.
C11_RangePassMonotonic ==
    (SegReturned /\ fnIn.segMethod = "range_pass") =>
        LET data == fnIn.volume.data
            lower == fnIn.manualThreshold
            upper == fnIn.manualUpper
        IN  /\ \A j \in 1..Len(data) :
                   segmentationVolume.data[j] =
                       (IF data[j] # NaN /\ lower <= data[j] /\ data[j] <= upper THEN 1 ELSE 0)
            /\ \A higher \in SliderValues(fnIn.volume) :
                   higher >= upper =>
                       LET wider == runSegmentationResult(fnIn.volume, "range_pass", lower, higher)
                       IN  /\ Foreground(segmentationVolume) \subseteq Foreground(wider)
                           /\ Cardinality(Foreground(segmentationVolume))
                                  <= Cardinality(Foreground(wider))

\* a range_pass run with a non-empty foreground that a higher upper bound enlarges
C11_Witness ==
    /\ SegReturned /\ fnIn.segMethod = "range_pass"
    /\ Foreground(segmentationVolume) # {}
    /\ \E higher \in SliderValues(fnIn.volume) :
          /\ higher > fnIn.manualUpper
          /\ Cardinality(Foreground(runSegmentationResult(fnIn.volume, "range_pass",
                                                          fnIn.manualThreshold, higher)))
                 > Cardinality(Foreground(segmentationVolume))

\* C12: on a volume of two well-separated clusters the Otsu threshold
\* min + t/binWidth lies above every low-cluster value and not above any
\* high-cluster value, so the otsu run labels the high cluster 1 and the low
\* cluster 0.
C12_OtsuSeparatesClusters ==
    (SegReturned /\ fnIn.segMethod = "otsu" /\ fnIn.volume \in ClusterVolumes) =>
        LET vol == fnIn.volume
            histogram == getHistogram(vol.data, vol.min, vol.max).histogram
        IN  \A thresholdBin \in computeOtsuThreshold(histogram, HistTotal(histogram)) :
              LET threshold == AutoThreshold(vol, thresholdBin)
              IN  \A j \in 1..Len(vol.data) :
                     /\ vol.data[j] \in LowValues =>
                            (vol.data[j] * NumBins < threshold /\ segmentationVolume.data[j] = 0)
                     /\ vol.data[j] \in HighValues =>
                            (vol.data[j] * NumBins >= threshold /\ segmentationVolume.data[j] = 1)

\* C20: every mask runSegmentation produces has the length and the dimensions
\* of the input volume, datatypeCode 2, and byte labels in {0,1,2,3}, for
\* every method and every element type of the source.
C20_MaskShapeAndLabels ==
    SegReturned =>
        /\ Len(segmentationVolume.data) = Len(fnIn.volume.data)
        /\ segmentationVolume.dimensions = fnIn.volume.dimensions
        /\ segmentationVolume.datatypeCode = 2
        /\ \A j \in 1..Len(segmentationVolume.data) : segmentationVolume.data[j] \in {0, 1, 2, 3}

\* a local_adaptive mask with label 3, made from a 16-bit integer volume
C20_Witness ==
    /\ SegReturned
    /\ fnIn.volume.datatypeCode = 4 /\ fnIn.segMethod = "local_adaptive"
    /\ \E j \in 1..Len(segmentationVolume.data) : segmentationVolume.data[j] = 3
    /\ segmentationVolume.datatypeCode = 2

(***************************************************************************)
(* SpecPipe: the pipeline runs of ProcessingPanel inside App.  A run is an *)
(* async function: it executes up to its next await, and is resumed by the *)
(* event loop, interleaved with user events.  The volume is modelled by    *)
(* its identity and shape (the arithmetic on its samples is modelled by    *)
(* the data-carrying specifications).                                      *)
(***************************************************************************)
CHUNK_SIZE == 500000

Tools == {"VIEWER", "PROCESSING", "SEGMENTATION", "COMPARISON", "ANALYSIS", "REPORTING"}
PanelTools == {"PROCESSING", "SEGMENTATION"}
ChunkedMethods == {"hist_eq", "gamma_bright", "gamma_dark", "sigmoid"}
ElementMethods == {"unsharp", "hist_match"}
SliceMethods == {"clahe", "median_3d"}
ProcMethods == ChunkedMethods \cup ElementMethods \cup SliceMethods \cup {"gaussian", "n4_bias"}
SegMethods == {"manual_draw", "binary", "binary_inv", "truncate", "range_pass",
               "otsu", "li", "multi_otsu", "local_adaptive"}

\* the shapes of the scans imported: one of several chunks, one of several slices
PipeShapes == {<<500001, 2, 1>>, <<1, 1, 6>>}

\* a volume by identity: the scan it was imported as and the transforms applied to it
PipeVolume(scan, dims, applied) ==
    [kind |-> "volume", scan |-> scan, dimensions |-> dims, len |-> NumVoxels(dims),
     applied |-> applied]

\* a mask by identity: the volume it was computed from
PipeMask(vol, by) == [kind |-> "volume", of |-> vol, by |-> by]

\* a ProcessingPanel instance right after mounting (its useState initial values)
MountedPanel(inst) ==
    [mounted |-> TRUE, inst |-> inst, isProcessing |-> FALSE, progress |-> 0,
     completed |-> FALSE, referenceVolume |-> FALSE, selectedModelId |-> FALSE]

\* Math.floor((a / b) * k) as FloorDiv(a * k, b): the same value for the shapes modelled
FloorDiv(a, b) == a \div b

\* the indices i = 0, step, 2*step, ... below n
Steps(n, step) == IF n <= 0 THEN {} ELSE {j * step : j \in 0..((n - 1) \div step)}

\* a set of numbers as the ascending sequence of its elements
RECURSIVE Ascending(_)
Ascending(S) ==
    IF S = {} THEN <<>>
    ELSE LET m == CHOOSE x \in S : \A y \in S : x <= y
         IN  <<m>> \o Ascending(S \ {m})

\* the progress values of the updateProgress calls of runProcessing, in order
ProcessingYields(method, vol) ==
    LET len == vol.len
        depth == vol.dimensions[3]
        perChunk(i) == FloorDiv(i * 100, len)
        perSlice(z) == FloorDiv(z * 100, depth)
        \* 33 * (z/depth): whole for the slices z % 10 = 0 of the shapes modelled
        third(z) == FloorDiv(33 * z, depth)
        third2(z) == 33 + FloorDiv(33 * z, depth)
        third3(z) == 66 + FloorDiv(33 * z, depth)
        chunks == Ascending(Steps(len, CHUNK_SIZE))
        fifth == Ascending(Steps(depth, 5))
        tenth == Ascending(Steps(depth, 10))
        inner == Ascending(Steps(depth - 1, 10) \ {0})
    IN  IF method \in ChunkedMethods \cup ElementMethods
        THEN [k \in 1..Len(chunks) |-> perChunk(chunks[k])]
        ELSE IF method \in SliceMethods
        THEN [k \in 1..Len(fifth) |-> perSlice(fifth[k])]
        ELSE IF method = "gaussian"
        THEN [k \in 1..Len(tenth) |-> third(tenth[k])]
             \o [k \in 1..Len(tenth) |-> third2(tenth[k])]
             \o [k \in 1..Len(inner) |-> third3(inner[k])]
        ELSE <<100>>

Min2(a, b) == IF a < b THEN a ELSE b

SegmentationYields_UnclampedMutant(vol) ==
    LET perChunk(i) == 10 + FloorDiv((i + CHUNK_SIZE) * 80, vol.len)
        chunks == Ascending(Steps(vol.len, CHUNK_SIZE))
    IN  [k \in 1..Len(chunks) |-> perChunk(chunks[k])]

\* the progress values runSegmentation sets before each await of its scan loop
SegmentationYields(vol) ==
    LET perChunk(i) == Min2(90, 10 + FloorDiv((i + CHUNK_SIZE) * 80, vol.len))
        chunks == Ascending(Steps(vol.len, CHUNK_SIZE))
    IN  [k \in 1..Len(chunks) |-> perChunk(chunks[k])]

\* setState on the instance a run was started from; nothing once it is unmounted
SetPanel(inst, isProcessing, progress, completed) ==
    IF panel.mounted /\ panel.inst = inst
    THEN [panel EXCEPT !.isProcessing = isProcessing, !.progress = progress,
                       !.completed = completed]
    ELSE panel

InitPipe ==
    /\ IdleHeap
    /\ activeTool = "VIEWER"
    /\ panel = NoPanel
    /\ runs = {}
    /\ nMounts = 0
    /\ nRuns = 0
    /\ lastAlert = NoAlert
    /\ volume \in {Null} \cup {PipeVolume(0, d, 0) : d \in PipeShapes}
    /\ segmentationVolume = Null
    /\ IdleHarness /\ IdleCmp /\ IdleBrush

\* Sidebar: the analysis tool is offered only with a segmentation loaded
VisibleTools == {t \in Tools : t = "ANALYSIS" => segmentationVolume # Null}

\* Sidebar onSelectTool -> setActiveTool; renderRightPanel keeps the ProcessingPanel
\* instance between Processing and Segmentation and unmounts it for every other tool
OnSelectTool ==
    /\ \E t \in VisibleTools :
         /\ t # activeTool
         /\ activeTool' = t
         /\ IF t \in PanelTools /\ ~panel.mounted
            THEN /\ nMounts < MaxMounts
                 /\ panel' = MountedPanel(nMounts + 1)
                 /\ nMounts' = nMounts + 1
            ELSE /\ panel' = IF t \in PanelTools THEN panel ELSE NoPanel
                 /\ UNCHANGED nMounts
    /\ UNCHANGED <<runs, nRuns, volume, segmentationVolume, lastAlert>>
    /\ UNCHANGED <<harnessVars, cmpVars, brushVars, heapVars>>

\* handleFileUpload / handleDrop with a file that parses
ImportScan ==
    /\ \E d \in PipeShapes :
         /\ (IF volume = Null THEN 0 ELSE volume.scan + 1) <= MaxImports
         /\ volume' = PipeVolume(IF volume = Null THEN 0 ELSE volume.scan + 1, d, 0)
    /\ segmentationVolume' = Null
    /\ UNCHANGED <<activeTool, panel, runs, nMounts, nRuns, lastAlert>>
    /\ UNCHANGED <<harnessVars, cmpVars, brushVars, heapVars>>

\* handleRefUpload with a file that parses
handleRefUpload ==
    /\ panel.mounted /\ activeTool = "PROCESSING"
    /\ ~panel.referenceVolume
    /\ panel' = [panel EXCEPT !.referenceVolume = TRUE]
    /\ UNCHANGED <<activeTool, runs, nMounts, nRuns, volume, segmentationVolume, lastAlert>>
    /\ UNCHANGED <<harnessVars, cmpVars, brushVars, heapVars>>

\* fetchModels answered with a non-empty list: setSelectedModelId(data[0].id)
fetchModels ==
    /\ panel.mounted /\ activeTool = "SEGMENTATION"
    /\ ~panel.selectedModelId
    /\ panel' = [panel EXCEPT !.selectedModelId = TRUE]
    /\ UNCHANGED <<activeTool, runs, nMounts, nRuns, volume, segmentationVolume, lastAlert>>
    /\ UNCHANGED <<harnessVars, cmpVars, brushVars, heapVars>>

\* what the inference server does with the one request of a run: the fetch
\* rejects, the response is not ok, its body is no NIfTI file, or it is one
Responses == {"rejected", "not_ok", "not_nifti", "nifti"}

NoResponse == "none"

\* one invocation: the closure's volume, method and reference, its position,
\* the number of fetch calls it has made and the answer to them
Run(id, fn, method, inst, vol, hasRef, response) ==
    [id |-> id, fn |-> fn, method |-> method, inst |-> inst, vol |-> vol,
     hasRef |-> hasRef, k |-> 0, pc |-> "start",
     sent |-> IF fn = "runBackendSegmentation" THEN 1 ELSE 0,
     response |-> response]

StartRun(fn, method, progress, completed, response) ==
    /\ nRuns < MaxRuns
    /\ runs' = runs \cup {Run(nRuns + 1, fn, method, panel.inst, volume,
                              panel.referenceVolume, response)}
    /\ nRuns' = nRuns + 1
    /\ panel' = [panel EXCEPT !.isProcessing = TRUE, !.progress = progress,
                              !.completed = completed]
    /\ UNCHANGED <<activeTool, nMounts, volume, segmentationVolume, lastAlert>>
    /\ UNCHANGED <<harnessVars, cmpVars, brushVars, heapVars>>

\* a click on Run Pipeline: the button is enabled, runProcessing runs up to its first await
runProcessing_Start ==
    /\ panel.mounted /\ activeTool = "PROCESSING"
    /\ \E m \in ProcMethods :
         /\ ~(panel.isProcessing \/ volume = Null \/ (m = "hist_match" /\ ~panel.referenceVolume))
         /\ StartRun("runProcessing", m, 0, FALSE, NoResponse)

\* a click on Generate Masks: runSegmentation up to its first await
runSegmentation_Start ==
    /\ panel.mounted /\ activeTool = "SEGMENTATION"
    /\ \E m \in SegMethods \ {"manual_draw"} :
         /\ ~(panel.isProcessing \/ volume = Null)
         /\ StartRun("runSegmentation", m, 0, FALSE, NoResponse)

\* a click on the external model's run button: runBackendSegmentation up to await fetch
runBackendSegmentation_Start ==
    /\ panel.mounted /\ activeTool = "SEGMENTATION"
    /\ ~(panel.isProcessing \/ volume = Null \/ ~panel.selectedModelId)
    /\ \E response \in Responses :
         StartRun("runBackendSegmentation", "predict", 30, panel.completed, response)

\* e.message || "Unknown error": the empty message is falsy
OrElseText(x, d) == IF x = "" THEN d ELSE x

\* catch of runProcessing: alert("Processing failed: " + (e.message || "Unknown error"))
ProcessingFailed(message) == "Processing failed: " \o OrElseText(message, "Unknown error")

\* catch of runBackendSegmentation: alert(`External Segmentation Failed: ${e.message}`)
BackendFailed(message) == "External Segmentation Failed: " \o message

\* e.message of what the try block throws for a response that is not a NIfTI
\* file: the rejection of fetch, the Error thrown for a response whose ok flag
\* is false, the Error thrown when parseNiftiFile returns null
BackendReason(response) ==
    CASE response = "rejected" -> "Failed to fetch"
      [] response = "not_ok" -> "Server returned 500: Internal Server Error"
      [] response = "not_nifti" -> "Failed to parse response as NIfTI"

FailRun_PublishMutant(r, message) ==
    /\ lastAlert' = message
    /\ runs' = runs \ {r}
    /\ panel' = IF panel.mounted /\ panel.inst = r.inst
                THEN [panel EXCEPT !.isProcessing = FALSE] ELSE panel
    /\ segmentationVolume' = PipeMask(r.vol, r.method)
    /\ UNCHANGED volume

\* the end of a run that failed: catch (alert), finally setIsProcessing(false)
FailRun(r, message) ==
    /\ lastAlert' = message
    /\ runs' = runs \ {r}
    /\ panel' = IF panel.mounted /\ panel.inst = r.inst
                THEN [panel EXCEPT !.isProcessing = FALSE] ELSE panel
    /\ UNCHANGED <<volume, segmentationVolume>>

MissingInput_LateMutant(r) == r.method = "hist_match" /\ ~r.hasRef /\ r.k > 0

\* procMethod === 'hist_match' with `if (!referenceVolume) throw`: the first
\* statement of the branch, ahead of getHistogram and of every updateProgress
MissingInput(r) == r.method = "hist_match" /\ ~r.hasRef

\* runProcessing resumed after an await: on to the next updateProgress, or to the end
runProcessing_Resume ==
    /\ \E r \in runs :
         /\ r.fn = "runProcessing"
         /\ LET ys == ProcessingYields(r.method, r.vol)
            IN  IF MissingInput(r)
                THEN FailRun(r, ProcessingFailed("Reference volume missing"))
                ELSE IF r.k < Len(ys)
                THEN /\ runs' = (runs \ {r}) \cup {[r EXCEPT !.k = r.k + 1, !.pc = "loop"]}
                     /\ panel' = IF panel.mounted /\ panel.inst = r.inst
                                 THEN [panel EXCEPT !.progress = ys[r.k + 1]] ELSE panel
                     /\ UNCHANGED <<volume, segmentationVolume, lastAlert>>
                ELSE \* onUpdateVolume({...volume, data: newData, min, max})
                     /\ volume' = [r.vol EXCEPT !.applied = r.vol.applied + 1]
                     /\ runs' = runs \ {r}
                     /\ panel' = SetPanel(r.inst, FALSE, 100, TRUE)
                     /\ UNCHANGED <<segmentationVolume, lastAlert>>
    /\ UNCHANGED <<activeTool, nMounts, nRuns>>
    /\ UNCHANGED <<harnessVars, cmpVars, brushVars, heapVars>>

\* runSegmentation resumed after an await
runSegmentation_Resume ==
    /\ \E r \in runs :
         /\ r.fn = "runSegmentation"
         /\ LET ys == SegmentationYields(r.vol)
            IN  IF r.k < Len(ys)
                THEN /\ runs' = (runs \ {r}) \cup {[r EXCEPT !.k = r.k + 1, !.pc = "loop"]}
                     /\ panel' = IF panel.mounted /\ panel.inst = r.inst
                                 THEN [panel EXCEPT !.progress = ys[r.k + 1]] ELSE panel
                     /\ UNCHANGED <<volume, segmentationVolume, lastAlert>>
                ELSE \* onUpdateSegmentation(segVol)
                     /\ segmentationVolume' = PipeMask(r.vol, r.method)
                     /\ runs' = runs \ {r}
                     /\ panel' = SetPanel(r.inst, FALSE, 100, TRUE)
                     /\ UNCHANGED <<volume, lastAlert>>
    /\ UNCHANGED <<activeTool, nMounts, nRuns>>
    /\ UNCHANGED <<harnessVars, cmpVars, brushVars, heapVars>>

\* runBackendSegmentation resumed: the fetch settles, then the body is read and parsed
runBackendSegmentation_Resume ==
    /\ \E r \in runs :
         /\ r.fn = "runBackendSegmentation"
         /\ \/ /\ r.pc = "start"          \* fetch rejected, or response.ok is false
               /\ r.response \in {"rejected", "not_ok"}
               /\ FailRun(r, BackendFailed(BackendReason(r.response)))
            \/ /\ r.pc = "start"          \* response.ok: setProgress(60), await arrayBuffer()
               /\ r.response \in {"not_nifti", "nifti"}
               /\ runs' = (runs \ {r}) \cup {[r EXCEPT !.k = 1, !.pc = "body"]}
               /\ panel' = IF panel.mounted /\ panel.inst = r.inst
                           THEN [panel EXCEPT !.progress = 60] ELSE panel
               /\ UNCHANGED <<volume, segmentationVolume, lastAlert>>
            \/ /\ r.pc = "body"           \* parseNiftiFile returned null
               /\ r.response = "not_nifti"
               /\ FailRun(r, BackendFailed(BackendReason(r.response)))
            \/ /\ r.pc = "body"           \* parsed: onUpdateSegmentation(segVol)
               /\ r.response = "nifti"
               /\ segmentationVolume' = PipeMask(r.vol, r.method)
               /\ runs' = runs \ {r}
               /\ panel' = SetPanel(r.inst, FALSE, 100, TRUE)
               /\ UNCHANGED <<volume, lastAlert>>
    /\ UNCHANGED <<activeTool, nMounts, nRuns>>
    /\ UNCHANGED <<harnessVars, cmpVars, brushVars, heapVars>>

NextPipe ==
    \/ OnSelectTool
    \/ ImportScan
    \/ handleRefUpload
    \/ fetchModels
    \/ runProcessing_Start
    \/ runSegmentation_Start
    \/ runBackendSegmentation_Start
    \/ runProcessing_Resume
    \/ runSegmentation_Resume
    \/ runBackendSegmentation_Resume

SpecPipe == InitPipe /\ [][NextPipe]_vars

\* C1: at any time at most one pipeline invocation (runProcessing,
\* runSegmentation or runBackendSegmentation) is in flight for the current
\* volume, whatever the interleaving of run clicks, tool switches and yields.
C1_SingleRunInFlight ==
    Cardinality({r \in runs : r.vol = volume}) <= 1

\* ---- runProcessing called as a function ----
\* The Run Pipeline button is disabled while a run is in flight and while
\* hist_match has no reference; called directly, runProcessing has only its
\* own guard (!volume || !onUpdateVolume).

InitCall ==
    /\ IdleHeap
    /\ activeTool = "PROCESSING"
    /\ \E hasRef \in BOOLEAN : panel = [MountedPanel(1) EXCEPT !.referenceVolume = hasRef]
    /\ runs = {}
    /\ nMounts = 1
    /\ nRuns = 0
    /\ lastAlert = NoAlert
    /\ volume \in {PipeVolume(0, d, 0) : d \in PipeShapes}
    /\ segmentationVolume = Null
    /\ IdleHarness /\ IdleCmp /\ IdleBrush

runProcessing_Call ==
    /\ volume # Null
    /\ \E m \in ProcMethods : StartRun("runProcessing", m, 0, FALSE, NoResponse)

NextCall ==
    \/ runProcessing_Call
    \/ runProcessing_Resume

SpecCall == InitCall /\ [][NextCall]_vars

\* C17: a hist_match run without a reference volume ends at its first
\* resumption: it has reported no progress checkpoint after the initial 0
\* and it ends with the alert of the missing reference, the volume as it was
\* (onUpdateVolume is not called), the progress as it was, and the processing
\* flag false.
C17_MissingReferenceFailsFast ==
    [][\A r \in runs :
         (r.fn = "runProcessing" /\ r.method = "hist_match" /\ ~r.hasRef) =>
           /\ r.k = 0 /\ r.pc = "start"
           /\ \/ r \in runs'
              \/ /\ \A q \in runs' : q.id # r.id
                 /\ volume' = volume
                 /\ lastAlert' = "Processing failed: Reference volume missing"
                 /\ panel'.progress = panel.progress
                 /\ panel'.completed = panel.completed
                 /\ ~panel'.isProcessing]_vars

\* a hist_match run without reference has ended: alert shown, flag false,
\* volume never transformed
C17_Witness ==
    /\ lastAlert = "Processing failed: Reference volume missing"
    /\ ~panel.referenceVolume
    /\ runs = {}
    /\ ~panel.isProcessing
    /\ panel.progress = 0
    /\ volume.applied = 0

\* C18: when the inference server's answer is not a success or its payload is
\* not a volume, runBackendSegmentation alerts a failure with a reason string,
\* leaves the segmentation as it was (onUpdateSegmentation is not called), has
\* sent exactly one request and starts no other, and its panel's processing
\* flag is false afterwards.
BackendRunEnds(r) ==
    /\ r \in runs
    /\ r.fn = "runBackendSegmentation"
    /\ r.response # "nifti"
    /\ \A q \in runs' : q.id # r.id

C18_BackendFailureReported ==
    [][\A r \in runs :
         BackendRunEnds(r) =>
           /\ lastAlert' = "External Segmentation Failed: " \o BackendReason(r.response)
           /\ segmentationVolume' = segmentationVolume
           /\ r.sent = 1
           /\ runs' = runs \ {r}
           /\ nRuns' = nRuns
           /\ (panel'.mounted /\ panel'.inst = r.inst) => ~panel'.isProcessing]_vars

\* a payload that did not parse was reported while an earlier mask is shown
C18_Witness ==
    /\ lastAlert = "External Segmentation Failed: Failed to parse response as NIfTI"
    /\ segmentationVolume # Null
    /\ panel.mounted /\ ~panel.isProcessing
    /\ runs = {}

\* ---- runBackendSegmentation: the response turned into a label volume ----
\* The numbers of a response file are held in units of 1/ResponseUnit, so that
\* a Float32 or Float64 sample can have a fractional part: 3 stands for 1.5.
ResponseUnit == 2

Whole(n) == n * ResponseUnit

\* the integer part of a finite number, towards zero
TruncUnit(h) == IF h >= 0 THEN h \div ResponseUnit ELSE -((-h) \div ResponseUnit)

\* maskData[i] = segVol.data[i] on a Uint8Array: NaN and the infinities store 0,
\* every other number its integer part modulo 256
StoreUint8(h) == IF ~IsFinite(h) THEN 0 ELSE Whole(ToUint8(TruncUnit(h)))

CoerceToBytes_CopyMutant(segVol) ==
    IF segVol.datatypeCode # 2
    THEN [segVol EXCEPT !.datatypeCode = 2]
    ELSE segVol

\* if (segVol.header.datatypeCode !== 2) { copy into a new Uint8Array; tag 2 }
CoerceToBytes(segVol) ==
    IF segVol.datatypeCode # 2
    THEN [segVol EXCEPT !.data = [i \in 1..Len(segVol.data) |-> StoreUint8(segVol.data[i])],
                        !.datatypeCode = 2]
    ELSE segVol

\* the samples each typed array of parseNiftiFile can hold; an unsupported
\* datatype code (256, INT8) is read as a Uint8Array and keeps its code
ResponseCodes == {2, 4, 8, 16, 64, 512, 256}

ResponseSamples(code) ==
    CASE code = 2 -> {Whole(0), Whole(1), Whole(255)}
      [] code = 4 -> {Whole(-1), Whole(1), Whole(256), Whole(300)}
      [] code = 8 -> {Whole(3), Whole(-256), Whole(65537)}
      [] code = 16 -> {Whole(1), 3, -1, 511, NaN, PosInf}
      [] code = 64 -> {Whole(2), -3, 513, NegInf}
      [] code = 512 -> {Whole(0), Whole(2), Whole(65535)}
      [] code = 256 -> {Whole(0), Whole(255)}

\* parseNiftiFile(responseBuffer): null for a body that is no NIfTI file
Responded ==
    {Null} \cup
    UNION {{parseNiftiFile(code, <<len, 1, 1>>, data) :
              data \in [1..len -> ResponseSamples(code)]} :
           code \in ResponseCodes, len \in 1..MaxLen}

InitBackend ==
    /\ IdleHeap
    /\ \E segVol \in Responded : fnIn = [op |-> "runBackendSegmentation", segVol |-> segVol]
    /\ fnOut = Pending
    /\ volume = parseDicomFiles(<<1, 1, 1>>, <<0>>)
    /\ segmentationVolume = Null
    /\ activeTool = "SEGMENTATION"
    /\ panel = NoPanel /\ runs = {} /\ nMounts = 0 /\ nRuns = 0 /\ lastAlert = NoAlert
    /\ IdleCmp /\ IdleBrush

\* runBackendSegmentation from parseNiftiFile's result to onUpdateSegmentation
\* or to the alert
runBackendSegmentation_Parsed ==
    /\ fnIn.op = "runBackendSegmentation"
    /\ fnOut = Pending
    /\ volume # Null
    /\ IF fnIn.segVol # Null
       THEN /\ segmentationVolume' = CoerceToBytes(fnIn.segVol)
            /\ fnOut' = Returned(TRUE)
            /\ UNCHANGED lastAlert
       ELSE /\ lastAlert' = BackendFailed(BackendReason("not_nifti"))
            /\ fnOut' = Returned(FALSE)
            /\ UNCHANGED segmentationVolume
    /\ UNCHANGED <<fnIn, volume, activeTool, panel, runs, nMounts, nRuns>>
    /\ UNCHANGED <<cmpVars, brushVars, heapVars>>

NextBackend == runBackendSegmentation_Parsed

SpecBackend == InitBackend /\ [][NextBackend]_vars

BackendPublished ==
    fnIn.op = "runBackendSegmentation" /\ fnOut.done /\ segmentationVolume # Null

\* C19: when the parsed inference result is not byte-typed, every label of the
\* published volume is a whole number in 0..255, a source value that is a whole
\* number in 0..255 is published unchanged, the length is kept, and the
\* published datatype tag is 2 (byte).
C19_CoercedToBytes ==
    (BackendPublished /\ fnIn.segVol.datatypeCode # 2) =>
      LET src == fnIn.segVol.data
          out == segmentationVolume.data
      IN  /\ segmentationVolume.datatypeCode = 2
          /\ Len(out) = Len(src)
          /\ \A i \in 1..Len(out) :
               /\ \E b \in 0..255 : out[i] = Whole(b)
               /\ (\E b \in 0..255 : src[i] = Whole(b)) => out[i] = src[i]

\* a Float32 result with the label 1 and the sample 1.5: published as 1 and 1
C19_Witness ==
    /\ BackendPublished
    /\ fnIn.segVol.datatypeCode = 16
    /\ fnIn.segVol.data = <<Whole(1), 3>>
    /\ segmentationVolume.data = <<Whole(1), Whole(1)>>

(***************************************************************************)
(* SpecProc: one run of runProcessing, from the initial copy               *)
(* (newData.set(data)) to onUpdateVolume.  A sample of newData is the      *)
(* exact quotient num / unit, kept as num; the unit belongs to the method  *)
(* and is kept next to the array.  The Float32Array holds the 32-bit float *)
(* nearest to the double the code computes: on hist_eq, clahe and gamma    *)
(* the volumes modelled have ranges 1, 2 and 256, for which every quotient *)
(* of the code is exact in doubles; gaussian's weights 0.2 and 0.6 are not *)
(* exact, its samples are the products in exact arithmetic.                *)
(***************************************************************************)
\* Math.max(0, Math.min(255, bin))
ClampBin(bin) == IF bin < 0 THEN 0 ELSE IF bin > NumBins - 1 THEN NumBins - 1 ELSE bin

\* Math.floor(((v - min) / range) * 255), clamped: the bin hist_eq and clahe look up
LookupBin(v, min, range) == ClampBin(((v - min) * (NumBins - 1)) \div range)

\* hist_eq: newData[j] = min + (cdf[bin] / total) * range, times total
HistEqData(vol) ==
    LET histogram == getHistogram(vol.data, vol.min, vol.max).histogram
        total == HistTotal(histogram)
        range == OrElse(vol.max - vol.min, 1)
    IN  [j \in 1..Len(vol.data) |->
            vol.min * total
            + HistCount(histogram, 0, LookupBin(vol.data[j], vol.min, range)) * range]

\* gamma: norm = Math.max(0, (data[j] - min) / range) and
\* newData[j] = min + Math.pow(norm, gamma) * range, times range, for gamma 1 and 2
GammaData(vol, gamma) ==
    LET range == OrElse(vol.max - vol.min, 1)
        norm(j) == IF vol.data[j] - vol.min < 0 THEN 0 ELSE vol.data[j] - vol.min
    IN  [j \in 1..Len(vol.data) |->
            vol.min * range + (IF gamma = 1 THEN norm(j) * range ELSE norm(j) * norm(j))]

\* data.subarray(offset, sliceEnd) of slice z (0-based)
SliceOf(vol, z) ==
    LET sliceSize == vol.dimensions[1] * vol.dimensions[2]
    IN  SubSeq(vol.data, z * sliceSize + 1, (z + 1) * sliceSize)

\* clahe's histogram of a slice: hist[clamped bin]++ for every sample
SliceHist(sliceData) ==
    LET sMin == ScanMin(sliceData, 0, 1, Len(sliceData), PosInf)
        sMax == ScanMax(sliceData, 0, 1, Len(sliceData), NegInf)
        sRange == OrElse(sMax - sMin, 1)
    IN  [b \in Bins |->
            Cardinality({k \in 1..Len(sliceData) :
                            LookupBin(sliceData[k], sMin, sRange) = b})] @@ <<>>

\* limit = (sliceData.length / 256) * clipLimit in units of 1/512, clipLimit
\* given in halves (the slider's step)
ClipLimit512(n, clipLimit2) == n * clipLimit2

\* excess: the sum of hist[k] - limit over the bins above the limit, in units of 1/512
ClipExcess512(hist, limit512) ==
    HistCount([b \in Bins |-> IF hist[b] * 512 > limit512
                              THEN hist[b] * 512 - limit512 ELSE 0] @@ <<>>,
              0, NumBins - 1)

\* hist after  hist[k] = limit  and  hist[k] += increment  (increment = excess / 256):
\* hist is an Int32Array, each store drops the fraction
ClippedHist(hist, limit512) ==
    LET increment131072 == ClipExcess512(hist, limit512)
    IN  [b \in Bins |->
            (IF hist[b] * 512 > limit512 THEN limit512 \div 512 ELSE hist[b])
            + increment131072 \div 131072] @@ <<>>

\* clahe: newData[offset + k] = sMin + cdf[bin] * sRange with cdf[b] = sum / n,
\* times the slice size n
ClaheData(vol, clipLimit2) ==
    LET n == vol.dimensions[1] * vol.dimensions[2]
        slice == [z \in 0..(vol.dimensions[3] - 1) |->
                     LET sliceData == SliceOf(vol, z)
                         sMin == ScanMin(sliceData, 0, 1, n, PosInf)
                         sMax == ScanMax(sliceData, 0, 1, n, NegInf)
                     IN  [sMin |-> sMin, sRange |-> OrElse(sMax - sMin, 1),
                          hist |-> ClippedHist(SliceHist(sliceData),
                                               ClipLimit512(n, clipLimit2))]] @@ <<>>
    IN  [j \in 1..Len(vol.data) |->
            LET s == slice[(j - 1) \div n]
            IN  s.sMin * n
                + HistCount(s.hist, 0, LookupBin(vol.data[j], s.sMin, s.sRange)) * s.sRange]

\* the distance in the array between neighbours along an axis (1 x, 2 y, 3 z)
AxisStride(dims, axis) ==
    IF axis = 1 THEN 1 ELSE IF axis = 2 THEN dims[1] ELSE dims[1] * dims[2]

\* the coordinate along an axis of the voxel at index i (0-based): idx(x, y, z) inverted
AxisCoord(dims, axis, i) == (i \div AxisStride(dims, axis)) % dims[axis]

\* the voxels the loops of a pass visit: 1 <= coordinate < dim - 1 along its axis
PassWrites(dims, axis, i) ==
    AxisCoord(dims, axis, i) >= 1 /\ AxisCoord(dims, axis, i) < dims[axis] - 1

\* one pass of gaussian: newData[i] = buf[i-s]*0.2 + buf[i]*0.6 + buf[i+s]*0.2 at
\* the voxels visited, times 5; the other elements of newData stay
GaussianPass(newData, buf, dims, axis) ==
    LET s == AxisStride(dims, axis)
    IN  [j \in 1..Len(newData) |->
            IF PassWrites(dims, axis, j - 1)
            THEN buf[j - s] + 3 * buf[j] + buf[j + s]
            ELSE 5 * newData[j]]

BufSet_StaleMutant(buf, newData) == [j \in 1..Len(buf) |-> 5 * buf[j]]

\* buf.set(newData) after a pass
BufSet(buf, newData) == newData

\* the divisor of the samples of newData
ProcUnit(vol, procMethod) ==
    IF procMethod = "hist_eq"
    THEN HistTotal(getHistogram(vol.data, vol.min, vol.max).histogram)
    ELSE IF procMethod = "clahe" THEN vol.dimensions[1] * vol.dimensions[2]
    ELSE IF procMethod = "gaussian" THEN 125
    ELSE OrElse(vol.max - vol.min, 1)

\* onUpdateVolume({...volume, data: newData, min: newMin, max: newMax}) with
\* newMin and newMax from every 10th sample of newData; the header is the volume's
Published(vol, newData) ==
    [vol EXCEPT !.data = newData,
                !.min = ScanMin(newData, 0, 10, Len(newData), PosInf),
                !.max = ScanMax(newData, 0, 10, Len(newData), NegInf)]

\* parseNiftiFile's switch: the datatype code of a Float32Array
Float32Code == 16

\* the values of param1 modelled: gamma 1.0 and 2.0 as they are; clipLimit 1.0,
\* 2.0 and 5.0 in halves; 1.0 for the methods that do not read it
GammaValues == {1, 2}
ClipLimits2 == {2, 4, 10}

ProcCalls ==
    {[procMethod |-> "hist_eq", param1 |-> 1]}
    \cup {[procMethod |-> m, param1 |-> g] : m \in {"gamma_bright", "gamma_dark"},
                                             g \in GammaValues}
    \cup {[procMethod |-> "clahe", param1 |-> c] : c \in ClipLimits2}
    \cup {[procMethod |-> "gaussian", param1 |-> 1]}

ProcSamples == {0, 1, 2}
ProcSeries == {<<0, 1, 2>>, <<0, 1, 1, 2>>}

\* 16 x 16 slices: the samples 0..254 and 256 (255 bins counted once, bin 0
\* twice), and the samples 0, 2, .., 254 twice each with 256 in place of one 254
SliceSeries ==
    {[j \in 1..256 |-> IF j = 256 THEN 256 ELSE j - 1],
     [j \in 1..256 |-> IF j = 256 THEN 256 ELSE 2 * ((j - 1) \div 2)]}

\* an impulse at voxel p, and the ramp 0, 1, 2, ...
GaussianShapes == {<<3, 3, 3>>, <<4, 1, 1>>, <<1, 3, 1>>, <<2, 2, 3>>}
GaussianSeries(dims) ==
    {[j \in 1..NumVoxels(dims) |-> IF j = p THEN 1 ELSE 0] : p \in 1..NumVoxels(dims)}
    \cup {[j \in 1..NumVoxels(dims) |-> j - 1]}

ProcVolumes ==
    {parseDicomFiles(<<n, 1, 1>>, data) : <<n, data>> \in
        UNION {{n} \X DataOf(ProcSamples, n) : n \in 1..MaxLen}}
    \cup {v \in ParsedVolumes(4, ProcSamples) : Len(v.data) > 0}
    \cup {parseDicomFiles(<<Len(data), 1, 1>>, data) : data \in ProcSeries}
    \cup {parseDicomFiles(<<16, 16, 1>>, data) : data \in SliceSeries}
    \cup UNION {{parseDicomFiles(dims, data) : data \in GaussianSeries(dims)} :
                   dims \in GaussianShapes}

\* runProcessing after newData.set(data), and for gaussian after buf.set(data)
Copied(vol, procMethod) ==
    IF procMethod = "gaussian"
    THEN [done |-> FALSE, pass |-> 0, newData |-> vol.data, buf |-> vol.data]
    ELSE [done |-> FALSE, pass |-> 0, newData |-> vol.data]

InitProc ==
    /\ IdleHeap
    /\ \E v \in ProcVolumes, c \in ProcCalls :
         /\ fnIn = [op |-> "runProcessing", volume |-> v, procMethod |-> c.procMethod,
                    param1 |-> c.param1]
         /\ fnOut = Copied(v, c.procMethod)
         /\ volume = v
    /\ segmentationVolume = Null
    /\ activeTool = "PROCESSING"
    /\ panel = NoPanel /\ runs = {} /\ nMounts = 0 /\ nRuns = 0 /\ lastAlert = NoAlert
    /\ IdleCmp /\ IdleBrush

\* hist_eq, clahe, gamma_bright / gamma_dark: the branch, the new min and max,
\* onUpdateVolume
runProcessing_Pointwise ==
    /\ fnIn.op = "runProcessing" /\ ~fnOut.done
    /\ fnIn.procMethod \in {"hist_eq", "clahe", "gamma_bright", "gamma_dark"}
    /\ LET newData == IF fnIn.procMethod = "hist_eq" THEN HistEqData(fnIn.volume)
                      ELSE IF fnIn.procMethod = "clahe"
                      THEN ClaheData(fnIn.volume, fnIn.param1)
                      ELSE GammaData(fnIn.volume, fnIn.param1)
       IN  /\ volume' = Published(fnIn.volume, newData)
           /\ fnOut' = [done |-> TRUE, pass |-> 1, newData |-> newData,
                        unit |-> ProcUnit(fnIn.volume, fnIn.procMethod)]
    /\ UNCHANGED <<fnIn, segmentationVolume, cmpVars, brushVars, pipeVars, heapVars>>

\* gaussian: the X, Y or Z pass with the buf.set(newData) after it; after the
\* Z pass the new min and max and onUpdateVolume
runProcessing_GaussianPass ==
    /\ fnIn.op = "runProcessing" /\ ~fnOut.done
    /\ fnIn.procMethod = "gaussian"
    /\ LET axis == fnOut.pass + 1
           newData == GaussianPass(fnOut.newData, fnOut.buf, fnIn.volume.dimensions, axis)
       IN  IF axis < 3
           THEN /\ fnOut' = [done |-> FALSE, pass |-> axis, newData |-> newData,
                             buf |-> BufSet(fnOut.buf, newData)]
                /\ UNCHANGED volume
           ELSE /\ fnOut' = [done |-> TRUE, pass |-> axis, newData |-> newData,
                             unit |-> ProcUnit(fnIn.volume, fnIn.procMethod)]
                /\ volume' = Published(fnIn.volume, newData)
    /\ UNCHANGED <<fnIn, segmentationVolume, cmpVars, brushVars, pipeVars, heapVars>>

NextProc == runProcessing_Pointwise \/ runProcessing_GaussianPass

SpecProc == InitProc /\ [][NextProc]_vars

ProcReturned == fnIn.op = "runProcessing" /\ fnOut.done

\* ---- arrays by identity: which typed array each operation stores into ----
\* heap[a] is the contents of the typed array a; in this specification the
\* data field of volume and of segmentationVolume holds the array's address.
MaxArrays == 4

Deref(vol) == [vol EXCEPT !.data = heap[vol.data]]

\* the array a holding data: a new array when a is past the end of the heap
Store(h, a, data) == IF a > Len(h) THEN Append(h, data) ELSE [h EXCEPT ![a] = data]

\* new Float32Array(len), new Uint8Array(len): an array no object refers to yet
NewArray_InPlaceMutant(h, vol) == vol.data
NewArray(h, vol) == Len(h) + 1

\* the transforms whose stores are whole numbers on the volumes modelled
FrameMethods == {"hist_eq", "gaussian", "unsharp"}

FrameShapes == {<<2, 1, 1>>, <<1, 1, 2>>}

\* runProcessing's newData for a volume none of whose dimensions exceeds 2:
\*  hist_eq   newData[j] = min + cdf[clamped bin] / total * range
\*  gaussian  the x, y and z loops (1 .. dim - 2) are empty: newData.set(data)
\*  unsharp   the blur loop (width + 1 .. len - width - 2) is empty, blurred is
\*            zero-filled: newData[j] = data[j] + strength * data[j], strength 1
ProcessedData(method, vol) ==
    LET data == vol.data
        len == Len(data)
        range == OrElse(vol.max - vol.min, 1)
        histogram == getHistogram(data, vol.min, vol.max).histogram
        total == HistTotal(histogram)
        cdf(j) == HistCount(histogram, 0, LookupBin(data[j], vol.min, range))
    IN  [j \in 1..len |->
           IF method = "hist_eq" THEN Fround(vol.min + (cdf(j) * range) \div total)
           ELSE IF method = "unsharp" THEN Fround(data[j] + (data[j] - 0))
           ELSE Fround(data[j])]

\* onUpdateVolume({...volume, data: newData, min: newMin, max: newMax}),
\* newMin and newMax from every 10th sample of newData
ProcessedVolume(method, vol) ==
    LET newData == ProcessedData(method, vol)
    IN  [vol EXCEPT !.data = newData,
                    !.min = ScanMin(newData, 0, 10, Len(newData), PosInf),
                    !.max = ScanMax(newData, 0, 10, Len(newData), NegInf)]

InitFrame ==
    /\ \E dims \in FrameShapes :
         \E data \in [1..NumVoxels(dims) -> BrushLabels] :
            /\ heap = <<data>>
            /\ volume = [parseDicomFiles(dims, data) EXCEPT !.data = 1]
    /\ segmentationVolume = Null
    /\ fnIn = NoCall /\ fnOut = Pending
    /\ activeTool = "SEGMENTATION"
    /\ panel = NoPanel /\ runs = {} /\ nMounts = 0 /\ nRuns = 0 /\ lastAlert = NoAlert
    /\ IdleCmp /\ IdleBrush

\* runProcessing from its first line to onUpdateVolume
runProcessing_Frame ==
    /\ volume # Null
    /\ Len(heap) < MaxArrays
    /\ \E m \in FrameMethods :
         LET out == ProcessedVolume(m, Deref(volume))
             newData == NewArray(heap, volume)
         IN  /\ heap' = Store(heap, newData, out.data)
             /\ volume' = [out EXCEPT !.data = newData]
             /\ fnIn' = [op |-> "runProcessing"]
    /\ UNCHANGED <<fnOut, segmentationVolume, cmpVars, brushVars, pipeVars>>

\* runSegmentation from its first line to onUpdateSegmentation
runSegmentation_Frame ==
    /\ volume # Null
    /\ Len(heap) < MaxArrays
    /\ \E m \in UserSegMethods :
         LET vol == Deref(volume)
             mask == NewArray(heap, volume)
         IN  \E segVol \in runSegmentationResults(vol, m, DefaultThreshold(vol),
                                                  DefaultUpper(vol)) :
               /\ heap' = Store(heap, mask, segVol.data)
               /\ segmentationVolume' = [segVol EXCEPT !.data = mask]
               /\ fnIn' = [op |-> "runSegmentation"]
    /\ UNCHANGED <<fnOut, volume, cmpVars, brushVars, pipeVars>>

\* Viewport.handleDraw(x, y, z, val, radius): the stores go to segmentation.data,
\* or to a new Uint8Array when there is no segmentation
handleDraw_Frame ==
    /\ volume # Null
    /\ segmentationVolume = Null => Len(heap) < MaxArrays
    /\ \E c \in Centres(volume), val \in BrushLabels, radius \in 1..MaxBrush :
         LET seg == IF segmentationVolume = Null THEN Null ELSE Deref(segmentationVolume)
             out == DrawResult(Deref(volume), seg, c[1], c[2], c[3], val, radius)
             target == IF segmentationVolume = Null THEN NewArray(heap, volume)
                       ELSE segmentationVolume.data
         IN  /\ heap' = Store(heap, target, out.data)
             /\ segmentationVolume' = [out EXCEPT !.data = target]
             /\ fnIn' = [op |-> "handleDraw"]
    /\ UNCHANGED <<fnOut, volume, cmpVars, brushVars, pipeVars>>

NextFrame == runProcessing_Frame \/ runSegmentation_Frame \/ handleDraw_Frame

SpecFrame == InitFrame /\ [][NextFrame]_vars

C30_PublishOntoOwnVolume ==
    [][\A r \in runs :
         (/\ r.fn = "runProcessing"
          /\ \A q \in runs' : q.id # r.id
          /\ volume' = [r.vol EXCEPT !.applied = r.vol.applied + 1]
          /\ volume' # volume)
         => (volume # Null /\ volume.scan = r.vol.scan)]_vars

\* C24: computeOtsuThreshold returns the lowest bin t that maximizes
\* wB * wF * (mB - mF)^2 among the bins with wB > 0 and wF > 0 (wB the count of
\* the bins 0..t, wF = total - wB), and 0 when there is no such bin.
OtsuReturned == fnIn.op = "computeOtsuThreshold" /\ fnOut.done

\* wB * wF * (mB - mF)^2 at bin t as a quotient
BetweenVariance(histogram, total, t) ==
    LET wB == HistCount(histogram, 0, t)
        wF == total - wB
        sumB == HistMoment(histogram, 0, t)
        sumF == HistMoment(histogram, t + 1, NumBins - 1)
        diff == sumB * wF - sumF * wB
    IN  [num |-> diff * diff, den |-> wB * wF]

C24_OtsuLowestMaximizer ==
    OtsuReturned =>
        LET histogram == fnOut.histogram
            total == fnOut.total
            split == {t \in Bins : HistCount(histogram, 0, t) > 0
                                   /\ total - HistCount(histogram, 0, t) > 0}
            var == [t \in split |-> BetweenVariance(histogram, total, t)] @@ <<>>
            best == {t \in split : \A u \in split :
                        var[t].num * var[u].den >= var[u].num * var[t].den}
        IN  fnOut.value = IF best = {} THEN 0
                          ELSE CHOOSE t \in best : \A u \in best : t <= u

\* the (lower, upper) threshold pairs of multi_otsu, in units of 1/256, computed
\* from the histogram of the volume: min + t1 / step and min + max(t1 + 1, t2) / step
MultiOtsuBounds(vol) ==
    LET histogram == getHistogram(vol.data, vol.min, vol.max).histogram
        total == HistTotal(histogram)
    IN  UNION {{<<AutoThreshold(vol, t1), AutoThreshold(vol, IF t2 > t1 + 1 THEN t2 ELSE t1 + 1)>> :
                  t2 \in computeOtsuThreshold(
                             [i \in Bins |-> IF i >= t1 THEN histogram[i] ELSE 0] @@ <<>>,
                             HistCount(histogram, t1, NumBins - 1))} :
               t1 \in computeOtsuThreshold(histogram, total)}

\* the mask is the labelling of the volume by the thresholds b: 1 iff
\* lower <= v < upper, 2 iff v >= upper, else 0
MultiOtsuLabelled(vol, mask, b) ==
    /\ Len(mask) = Len(vol.data)
    /\ \A j \in 1..Len(mask) :
          LET v == Scaled(vol.data[j])
          IN  mask[j] = (IF Ge(v, b[1]) /\ Lt(v, b[2]) THEN 1
                         ELSE IF Ge(v, b[2]) THEN 2 ELSE 0)

C26_SegmentationProgress ==
    [][\A r \in runs :
          (/\ r.fn = "runSegmentation"
           /\ panel.mounted /\ panel.inst = r.inst
           /\ panel'.mounted /\ panel'.inst = r.inst) =>
              /\ panel'.progress >= panel.progress
              /\ (\E r2 \in runs' : r2.id = r.id /\ r2.k = r.k + 1) =>
                     (panel'.progress >= 10 /\ panel'.progress <= 90)
              /\ (panel'.progress = 100 /\ panel.progress # 100) =>
                     /\ segmentationVolume' = PipeMask(r.vol, r.method)
                     /\ r \notin runs'
              /\ r \in runs' => panel'.progress = panel.progress]_vars

\* a segmentation run past the last chunk of a volume of three chunks, the mask
\* not yet handed over: the panel shows 90
C26_Witness ==
    \E r \in runs :
        /\ r.fn = "runSegmentation" /\ r.k = 3 /\ r.pc = "loop"
        /\ panel.mounted /\ panel.inst = r.inst
        /\ panel.progress = 90 /\ panel.isProcessing
        /\ segmentationVolume = Null

\* C21: every intensity transform returns Float32 data, and the volume it
\* publishes carries the float datatype tag, also for an integer-typed input.
C21_FloatTagAfterTransform ==
    ProcReturned => volume.datatypeCode = Float32Code

\* C22: after any intensity transform the reported min and max bound the
\* output: min <= output[i] <= max for every i.
C22_ReportedMinMaxBoundOutput ==
    ProcReturned =>
        \A i \in 1..Len(volume.data) :
            Le(volume.min, volume.data[i]) /\ Le(volume.data[i], volume.max)

\* C23: gamma correction with gamma = 1.0 is the identity: every output voxel
\* equals the input voxel (the stored float is the one nearest to the exact value).
C23_GammaOneIsIdentity ==
    (ProcReturned /\ fnIn.procMethod \in {"gamma_bright", "gamma_dark"} /\ fnIn.param1 = 1) =>
        \A i \in 1..Len(volume.data) :
            volume.data[i] = fnIn.volume.data[i] * fnOut.unit

\* the coordinates (x, y, z) of the voxel at the 1-based index j
Coords(dims, j) ==
    <<(j - 1) % dims[1], ((j - 1) \div dims[1]) % dims[2], (j - 1) \div (dims[1] * dims[2])>>

\* the 1-based index of the voxel at coordinates c
IndexOf(dims, c) == c[3] * dims[1] * dims[2] + c[2] * dims[1] + c[1] + 1

\* a step of gaussian is the pass along the next axis over the complete result
\* of the pass before it (the input for the X pass): times 5, a voxel that is
\* first or last along the axis keeps its value, every other voxel becomes
\* old[-1] + 3 old[0] + old[+1] along the axis
GaussianPassStep ==
    (fnIn.op = "runProcessing" /\ fnIn.procMethod = "gaussian" /\ ~fnOut.done
        /\ fnOut' # fnOut) =>
       LET dims == fnIn.volume.dimensions
           axis == fnOut'.pass
           old == fnOut.newData
           new == fnOut'.newData
       IN  /\ axis = fnOut.pass + 1
           /\ Len(new) = Len(old)
           /\ \A j \in 1..Len(old) :
                 LET c == Coords(dims, j)
                     before == IndexOf(dims, [c EXCEPT ![axis] = c[axis] - 1])
                     after == IndexOf(dims, [c EXCEPT ![axis] = c[axis] + 1])
                 IN  IF c[axis] = 0 \/ c[axis] = dims[axis] - 1
                     THEN new[j] = 5 * old[j]
                     ELSE new[j] = old[before] + 3 * old[j] + old[after]

\* a voxel that is first or last along all three axes has its input value
\* after the three passes
GaussianCornersKept ==
    (ProcReturned /\ fnIn.procMethod = "gaussian") =>
        /\ fnOut.pass = 3
        /\ volume.data = fnOut.newData
        /\ \A j \in 1..Len(volume.data) :
              LET dims == fnIn.volume.dimensions
                  c == Coords(dims, j)
              IN  (\A a \in 1..3 : c[a] = 0 \/ c[a] = dims[a] - 1) =>
                      volume.data[j] = 125 * fnIn.volume.data[j]

\* C27: gaussian is three 1D passes with the kernel [0.2, 0.6, 0.2] along X,
\* then Y, then Z; each pass reads the complete output of the pass before it
\* and changes only the voxels that are neither first nor last along its axis,
\* so a corner voxel keeps its input value and a voxel on the border of one
\* axis keeps, in that axis's pass, the value the pass before left.
C27_GaussianThreePasses ==
    [](GaussianCornersKept) /\ [][GaussianPassStep]_vars

\* an impulse at the corner (0, 0, 0) of a 3 x 3 x 3 volume: the corner keeps
\* 1, the centre (1, 1, 1) gets 0.2^3 through (1, 0, 0) and (1, 1, 0)
C27_Witness ==
    /\ ProcReturned /\ fnIn.procMethod = "gaussian"
    /\ fnIn.volume.dimensions = <<3, 3, 3>>
    /\ fnIn.volume.data[1] = 1 /\ fnIn.volume.data[14] = 0
    /\ volume.data[1] = 125
    /\ volume.data[14] = 1

\* C28: hist_eq looks up the CDF at the bin in which getHistogram counted the
\* voxel, and the output is min + (CDF[bin] / total) * range.
C28_HistEqLooksUpCountedBin ==
    (ProcReturned /\ fnIn.procMethod = "hist_eq") =>
        LET vol == fnIn.volume
            histogram == getHistogram(vol.data, vol.min, vol.max).histogram
            total == HistTotal(histogram)
            range == OrElse(vol.max - vol.min, 1)
        IN  \A j \in 1..Len(vol.data) :
                LET bin == BinOf(vol.data[j], vol.min, vol.max)
                IN  (bin # NaN /\ bin >= 0 /\ bin < NumBins) =>
                        volume.data[j] = vol.min * total + HistCount(histogram, 0, bin) * range

\* C29: in clahe, clipping the histogram of a slice at (sliceSize / 256) *
\* clipLimit and redistributing the excess uniformly keeps the sum of the
\* histogram at the slice size, so the CDF is non-decreasing and the
\* normalized CDF is 1 at bin 255.
C29_ClaheConservesTotal ==
    (ProcReturned /\ fnIn.procMethod = "clahe") =>
        LET vol == fnIn.volume
            n == vol.dimensions[1] * vol.dimensions[2]
        IN  \A z \in 0..(vol.dimensions[3] - 1) :
                LET hist == ClippedHist(SliceHist(SliceOf(vol, z)),
                                        ClipLimit512(n, fnIn.param1))
                IN  /\ HistTotal(hist) = n
                    /\ \A b \in Bins : hist[b] >= 0
====
